---- MODULE Spec2Model ----
(***************************************************************************)
(* Model of lodestone-world-status: the scraper (parseWorldStatus,         *)
(* parseWorldStatusGeneric, parseStatusText, inferRegion), the generic     *)
(* Cache<T> class and the LodestoneWorldStatus service with its inline     *)
(* cache cell (cachedData / lastFetchTime).                                *)
(*                                                                         *)
(* Strings are sequences of one-character strings, so that trim,           *)
(* toLowerCase and includes are computed and not assumed.  The clock       *)
(* (Date.now()) counts units of 150 s: the five minutes of                 *)
(* cacheExpirationMs are 2 units.                                          *)
(***************************************************************************)
EXTENDS Integers, Sequences, FiniteSets, TLC

\* ------------------------------------------------------------------ bounds
MaxTime == 3
MaxFetches == 2
MaxExpiration == 2

\* index.ts:24  private cacheExpirationMs = 5 * 60 * 1000 (in clock units)
cacheExpirationMs == 2

\* JavaScript's null
NULL == [null |-> TRUE]
Callers == {"c1", "c2"}

\* index.ts:101-175: a query, the method called and its argument
Query(method, arg) == <<method, arg>>

\* ----------------------------------------------------------------- strings
UpperCase == <<"A","B","C","D","E","F","G","H","I","J","K","L","M",
               "N","O","P","Q","R","S","T","U","V","W","X","Y","Z">>
LowerCase == <<"a","b","c","d","e","f","g","h","i","j","k","l","m",
               "n","o","p","q","r","s","t","u","v","w","x","y","z">>

IsUpper(c) == \E i \in 1..26 : UpperCase[i] = c
IsLower(c) == \E i \in 1..26 : LowerCase[i] = c
IsLetter(c) == IsUpper(c) \/ IsLower(c)
IsSpace(c) == c \in {" ", "\n", "\t"}

LowerChar(c) == IF IsUpper(c) THEN LowerCase[CHOOSE i \in 1..26 : UpperCase[i] = c] ELSE c

\* String.prototype.toLowerCase
toLowerCase(s) == [i \in 1..Len(s) |-> LowerChar(s[i])]

UpperChar(c) == IF IsLower(c) THEN UpperCase[CHOOSE i \in 1..26 : LowerCase[i] = c] ELSE c
toUpperCase(s) == [i \in 1..Len(s) |-> UpperChar(s[i])]

RECURSIVE trimStart(_)
trimStart(s) == IF s # <<>> /\ IsSpace(Head(s)) THEN trimStart(Tail(s)) ELSE s

RECURSIVE trimEnd(_)
trimEnd(s) == IF s # <<>> /\ IsSpace(s[Len(s)]) THEN trimEnd(SubSeq(s, 1, Len(s) - 1)) ELSE s

\* String.prototype.trim
trim(s) == trimEnd(trimStart(s))

\* String.prototype.includes
includes(s, sub) == \E i \in 0..(Len(s) - Len(sub)) : SubSeq(s, i + 1, i + Len(sub)) = sub

endsWith(s, suf) == Len(s) >= Len(suf) /\ SubSeq(s, Len(s) - Len(suf) + 1, Len(s)) = suf

\* the words the scraper looks for
w_maintenance == <<"m","a","i","n","t","e","n","a","n","c","e">>
w_offline == <<"o","f","f","l","i","n","e">>
w_preferredplus == <<"p","r","e","f","e","r","r","e","d","+">>
w_preferred == <<"p","r","e","f","e","r","r","e","d">>
w_congested == <<"c","o","n","g","e","s","t","e","d">>
w_new == <<"n","e","w">>

W_Standard == <<"S","t","a","n","d","a","r","d">>
W_Preferred == <<"P","r","e","f","e","r","r","e","d">>
W_Congested == <<"C","o","n","g","e","s","t","e","d">>
W_PreferredPlus == <<"P","r","e","f","e","r","r","e","d","+">>
W_New == <<"N","e","w">>

\* the data center names of inferRegion
n_aether == <<"a","e","t","h","e","r">>
n_crystal == <<"c","r","y","s","t","a","l">>
n_dynamis == <<"d","y","n","a","m","i","s">>
n_primal == <<"p","r","i","m","a","l">>
n_chaos == <<"c","h","a","o","s">>
n_light == <<"l","i","g","h","t">>
n_elemental == <<"e","l","e","m","e","n","t","a","l">>
n_gaia == <<"g","a","i","a">>
n_mana == <<"m","a","n","a">>
n_meteor == <<"m","e","t","e","o","r">>
n_materia == <<"m","a","t","e","r","i","a">>

\* ------------------------------------------------------- status and region
\* an availability test that looks for 'offline' before 'maintenance'
StatusOf_OfflineFirst(text) ==
    IF includes(text, w_offline) THEN "offline"
    ELSE IF includes(text, w_maintenance) THEN "maintenance"
    ELSE "online"

\* scraper.ts:146-153
StatusOf(text) ==
    IF includes(text, w_maintenance) THEN "maintenance"
    ELSE IF includes(text, w_offline) THEN "offline"
    ELSE "online"

\* a population test that leaves character creation open when congested
PopulationOf_CongestedOpen(text) ==
    IF includes(text, w_preferredplus) THEN <<"preferred+", TRUE>>
    ELSE IF includes(text, w_preferred) THEN <<"preferred", TRUE>>
    ELSE IF includes(text, w_congested) THEN <<"congested", TRUE>>
    ELSE IF includes(text, w_new) THEN <<"new", TRUE>>
    ELSE <<"standard", TRUE>>

\* a population test that looks for 'congested' first
PopulationOf_CongestedFirst(text) ==
    IF includes(text, w_congested) THEN <<"congested", FALSE>>
    ELSE IF includes(text, w_preferredplus) THEN <<"preferred+", TRUE>>
    ELSE IF includes(text, w_preferred) THEN <<"preferred", TRUE>>
    ELSE IF includes(text, w_new) THEN <<"new", TRUE>>
    ELSE <<"standard", TRUE>>

\* scraper.ts:156-173: <<population, newCharacterCreation>>
PopulationOf(text) ==
    IF includes(text, w_preferredplus) THEN <<"preferred+", TRUE>>
    ELSE IF includes(text, w_preferred) THEN <<"preferred", TRUE>>
    ELSE IF includes(text, w_congested) THEN <<"congested", FALSE>>
    ELSE IF includes(text, w_new) THEN <<"new", TRUE>>
    ELSE <<"standard", TRUE>>

\* scraper.ts:175-179
StatusRecord(status, population) ==
    [status |-> status, population |-> population[1], newCharacterCreation |-> population[2]]

\* scraper.ts:139-180
parseStatusText(statusText) ==
    StatusRecord(StatusOf(trim(toLowerCase(statusText))),
                 PopulationOf(trim(toLowerCase(statusText))))

\* scraper.ts:189-209
RegionOf(name) ==
    IF name \in {n_aether, n_crystal, n_dynamis, n_primal} THEN "na"
    ELSE IF name \in {n_chaos, n_light} THEN "eu"
    ELSE IF name \in {n_elemental, n_gaia, n_mana, n_meteor} THEN "jp"
    ELSE IF name \in {n_materia} THEN "oc"
    ELSE "na"

\* a lookup of the name as given, without folding its case
inferRegion_CaseSensitive(dcName) == RegionOf(dcName)

\* scraper.ts:185-210
inferRegion(dcName) == RegionOf(toLowerCase(dcName))

\* --------------------------------------------------------------- documents
\* The element tree node-html-parser's parse(html) builds, as the sequence
\* of its elements in document order: each element has its tag, its class,
\* its own text and the position of its parent element (0: none).
El(tag, cls, text, parent) == [tag |-> tag, cls |-> cls, text |-> text, parent |-> parent]

RECURSIVE FlattenTo(_, _)
FlattenTo(ss, n) == IF n = 0 THEN <<>> ELSE FlattenTo(ss, n - 1) \o ss[n]

\* the concatenation of a sequence of sequences
Flatten(ss) == FlattenTo(ss, Len(ss))

\* element j lies below element i
RECURSIVE Below(_, _, _)
Below(doc, j, i) ==
    /\ doc[j].parent # 0
    /\ \/ doc[j].parent = i
       \/ Below(doc, doc[j].parent, i)

Positions(doc) == [k \in 1..Len(doc) |-> k]

\* HTMLElement.text: the element's text followed by its descendants' text
Text(doc, i) ==
    Flatten([j \in 1..Len(doc) |-> IF j = i \/ Below(doc, j, i) THEN doc[j].text ELSE <<>>])

\* root.querySelectorAll(selector): the matching elements below root (0: the
\* document) in document order
querySelectorAll(doc, root, Matches(_)) ==
    LET hit(j) == (root = 0 \/ Below(doc, j, root)) /\ Matches(doc[j])
    IN SelectSeq(Positions(doc), hit)

\* a walk that looks at the element right after element i and no further
NextSiblings_ImmediateOnly(doc, i) ==
    LET next(j) == /\ j > i
                   /\ doc[j].parent = doc[i].parent
                   /\ \A m \in (i + 1)..(j - 1) : doc[m].parent # doc[i].parent
    IN SelectSeq(Positions(doc), next)

\* the elements nextElementSibling reaches from element i, in order
NextSiblings(doc, i) ==
    LET after(j) == j > i /\ doc[j].parent = doc[i].parent
    IN SelectSeq(Positions(doc), after)

IsDatacenterSection(e) == e.cls = "worldstatus__datacenter"
IsH3(e) == e.tag = "H3"
IsUL(e) == e.tag = "UL"
IsLI(e) == e.tag = "LI"
IsWorldName(e) == e.cls = "worldstatus__world-name"
IsStatus(e) == e.cls = "worldstatus__status"
IsHeading(e) == e.tag \in {"H2", "H3", "H4"}

\* A fetched page: its element tree, or parseThrows when parse(html) raises.
Page(parseThrows, nodes) == [parseThrows |-> parseThrows, nodes |-> nodes]

Returned(v) == [threw |-> FALSE, value |-> v]
Thrown(isError, message) == [threw |-> TRUE, isError |-> isError, message |-> message]

ParseLibraryError == Thrown(TRUE, "Invalid HTML")

\* { name, ...parseStatusText(statusText) }
World(name, parsed) ==
    [name |-> name, status |-> parsed.status, population |-> parsed.population,
     newCharacterCreation |-> parsed.newCharacterCreation]

\* { name, region: inferRegion(name), worlds }
DataCenter(name, worlds) == [name |-> name, region |-> inferRegion(name), worlds |-> worlds]

\* element.querySelector(selector)?.text.trim(), the empty text standing
\* for undefined (both are falsy)
FirstText(doc, els) == IF els = <<>> THEN <<>> ELSE trim(Text(doc, els[1]))

\* scraper.ts:49-54
WorldIfComplete(worldName, statusText) ==
    IF worldName # <<>> /\ statusText # <<>>
    THEN <<World(worldName, parseStatusText(statusText))>>
    ELSE <<>>

\* scraper.ts:41-55: the world of one <li>, or none when its name or its
\* status element is missing or empty
ItemWorld(doc, item) ==
    WorldIfComplete(FirstText(doc, querySelectorAll(doc, item, IsWorldName)),
                    FirstText(doc, querySelectorAll(doc, item, IsStatus)))

\* an item loop that gives up the whole list at an incomplete item
ItemsWorlds_AllOrNothing(doc, worldItems) ==
    IF \E k \in 1..Len(worldItems) : ItemWorld(doc, worldItems[k]) = <<>>
    THEN <<>>
    ELSE Flatten([k \in 1..Len(worldItems) |-> ItemWorld(doc, worldItems[k])])

\* scraper.ts:39-55
ItemsWorlds(doc, worldItems) ==
    Flatten([k \in 1..Len(worldItems) |-> ItemWorld(doc, worldItems[k])])

\* scraper.ts:37-56: the worlds of the first <ul> among uls
FirstListWorlds(doc, uls) ==
    IF uls = <<>> THEN <<>> ELSE ItemsWorlds(doc, querySelectorAll(doc, uls[1], IsLI))

\* a section loop that pushes a data center whether it has worlds or not
DataCenterIfAny_AllowEmpty(doc, h3s, worlds) ==
    IF h3s = <<>> THEN <<>> ELSE <<DataCenter(trim(Text(doc, h3s[1])), worlds)>>

\* scraper.ts:30-64
DataCenterIfAny(doc, h3s, worlds) ==
    IF h3s = <<>> THEN <<>>
    ELSE IF Len(worlds) > 0 THEN <<DataCenter(trim(Text(doc, h3s[1])), worlds)>>
    ELSE <<>>

\* scraper.ts:29-65: the data center of one section, or none
SectionDataCenter(doc, section) ==
    DataCenterIfAny(doc, querySelectorAll(doc, section, IsH3),
                    FirstListWorlds(doc, querySelectorAll(doc, section, IsUL)))

\* a section loop that also raises when no section gave a data center
SectionsDataCenters_ThrowOnEmpty(doc, datacenterSections) ==
    IF \/ Len(datacenterSections) = 0
       \/ \A k \in 1..Len(datacenterSections) :
              SectionDataCenter(doc, datacenterSections[k]) = <<>>
    THEN Thrown(TRUE, "Could not find world status containers")
    ELSE Returned(Flatten([k \in 1..Len(datacenterSections) |->
                             SectionDataCenter(doc, datacenterSections[k])]))

\* scraper.ts:25-67
SectionsDataCenters(doc, datacenterSections) ==
    IF Len(datacenterSections) = 0
    THEN Thrown(TRUE, "Could not find world status containers")
    ELSE Returned(Flatten([k \in 1..Len(datacenterSections) |->
                             SectionDataCenter(doc, datacenterSections[k])]))

\* scraper.ts:18-68
parseWorldStatus(html) ==
    IF html.parseThrows THEN ParseLibraryError
    ELSE SectionsDataCenters(html.nodes, querySelectorAll(html.nodes, 0, IsDatacenterSection))

PopulationWords == {W_Standard, W_Preferred, W_Congested, W_PreferredPlus, W_New}

\* the groups of the match when the text ends with population word w
MatchGroups(before, w) ==
    IF /\ before # <<>>
       /\ IsSpace(before[Len(before)])
       /\ trimEnd(before) # <<>>
       /\ \A i \in 1..Len(trimEnd(before)) :
             IsLetter(trimEnd(before)[i]) \/ IsSpace(trimEnd(before)[i])
    THEN <<trimEnd(before), w>>
    ELSE <<>>

\* scraper.ts:101-103: text.match(/^([A-Za-z\s]+?)\s+(Standard|Preferred|
\* Congested|Preferred\+|New)$/): the groups <<name, status>>, or <<>> when
\* the text does not match
MatchWorldPattern(text) ==
    IF \E w \in PopulationWords : endsWith(text, w)
    THEN Flatten([k \in 1..1 |->
            MatchGroups(SubSeq(text, 1, Len(text) - Len(CHOOSE w \in PopulationWords :
                                                            endsWith(text, w))),
                        CHOOSE w \in PopulationWords : endsWith(text, w))])
    ELSE <<>>

\* scraper.ts:104-109
RawWorldIfMatch(match) ==
    IF match # <<>>
    THEN <<[name |-> trim(match[1]), statusText |-> trim(match[2])]>>
    ELSE <<>>

\* scraper.ts:97-110: the raw world of one <li>, or none
ItemRawWorld(doc, item) == RawWorldIfMatch(MatchWorldPattern(trim(Text(doc, item))))

\* scraper.ts:94-110: the raw worlds of a list
ItemsRawWorlds(doc, items) ==
    Flatten([k \in 1..Len(items) |-> ItemRawWorld(doc, items[k])])

\* scraper.ts:92-94, 127: the first <ul> among the following siblings
FirstList(doc, siblings) ==
    LET isList(j) == IsUL(doc[j]) IN SelectSeq(siblings, isList)

\* scraper.ts:91-130: the raw worlds of the first <ul> among lists
ListsWorlds(doc, lists) ==
    IF lists = <<>> THEN <<>>
    ELSE ItemsRawWorlds(doc, querySelectorAll(doc, lists[1], IsLI))

\* scraper.ts:91-130: the raw worlds found for a heading
HeadingWorlds(doc, heading) == ListsWorlds(doc, FirstList(doc, NextSiblings(doc, heading)))

\* scraper.ts:114-117
ParsedWorlds(worlds) ==
    [k \in 1..Len(worlds) |-> World(worlds[k].name, parseStatusText(worlds[k].statusText))]

\* a set of names that takes every heading seen, with worlds or without
Processed_Seen(doc, headings, n, dcName) ==
    \E m \in 1..(n - 1) : trim(Text(doc, headings[m])) = dcName

\* scraper.ts:86-88: processedDataCenters.has(dcName) at the n-th heading:
\* an earlier heading of that name was not skipped and gave worlds
RECURSIVE Processed(_, _, _, _)
Processed(doc, headings, n, dcName) ==
    \E m \in 1..(n - 1) :
        /\ trim(Text(doc, headings[m])) = dcName
        /\ ~Processed(doc, headings, m, dcName)
        /\ Len(HeadingWorlds(doc, headings[m])) > 0

\* scraper.ts:112-126
GenericDataCenterIfAny(dcName, worlds) ==
    IF Len(worlds) > 0 THEN <<DataCenter(dcName, ParsedWorlds(worlds))>> ELSE <<>>

\* scraper.ts:82-131: the data center of the n-th heading, or none
HeadingDataCenter(doc, headings, n) ==
    IF Processed(doc, headings, n, trim(Text(doc, headings[n]))) THEN <<>>
    ELSE GenericDataCenterIfAny(trim(Text(doc, headings[n])),
                                HeadingWorlds(doc, headings[n]))

\* scraper.ts:80-133
HeadingsDataCenters(doc, headings) ==
    Returned(Flatten([n \in 1..Len(headings) |-> HeadingDataCenter(doc, headings, n)]))

\* scraper.ts:74-134
parseWorldStatusGeneric(html) ==
    IF html.parseThrows THEN ParseLibraryError
    ELSE HeadingsDataCenters(html.nodes, querySelectorAll(html.nodes, 0, IsHeading))

\* ------------------------------------------------------------------- pages
s_Aether == <<"A","e","t","h","e","r">>
s_Chaos == <<"C","h","a","o","s">>
s_Light == <<"L","i","g","h","t">>
s_Gilgamesh == <<"G","i","l","g","a","m","e","s","h">>
s_Omega == <<"O","m","e","g","a">>
s_Odin == <<"O","d","i","n">>
s_Online == <<"O","n","l","i","n","e">>
sp == <<" ">>

\* the structured page: one data center with two worlds
PageStructured ==
    Page(FALSE,
         <<El("DIV", "worldstatus__datacenter", <<>>, 0),
             El("H3", "", s_Aether, 1),
             El("UL", "", <<>>, 1),
               El("LI", "", <<>>, 3),
                 El("DIV", "worldstatus__world-name", s_Gilgamesh, 4),
                 El("DIV", "worldstatus__status", W_Congested, 4),
               El("LI", "", <<>>, 3),
                 El("DIV", "worldstatus__world-name", s_Omega, 7),
                 El("DIV", "worldstatus__status", s_Online, 7)>>)

\* containers are present, none yields a world
PageContainersNoWorlds ==
    Page(FALSE,
         <<El("DIV", "worldstatus__datacenter", <<>>, 0),
             El("H3", "", s_Aether, 1),
           El("DIV", "worldstatus__datacenter", <<>>, 0),
             El("UL", "", <<>>, 3),
               El("LI", "", <<>>, 4),
                 El("DIV", "worldstatus__world-name", s_Omega, 5)>>)

\* no containers: two headings, each followed by one matching list item
PageHeadings ==
    Page(FALSE,
         <<El("H2", "", s_Chaos, 0),
           El("UL", "", <<>>, 0),
             El("LI", "", s_Omega \o sp \o W_Standard, 2),
           El("H2", "", s_Light, 0),
           El("P", "", <<>>, 0),
           El("UL", "", <<>>, 0),
             El("LI", "", s_Odin \o sp \o W_PreferredPlus, 6)>>)

\* <html></html>: well formed, no world data at all
PageEmpty == Page(FALSE, <<>>)

\* well formed, no containers, no heading, a list of other things
PageNoWorldData ==
    Page(FALSE,
         <<El("DIV", "", <<>>, 0),
             El("UL", "", <<>>, 1),
               El("LI", "", <<"N","o","t"," ","a"," ","w","o","r","l","d">>, 2),
               El("LI", "", <<"1","2","3"," ","I","n","v","a","l","i","d">>, 2)>>)

\* a text parse(html) raises on
PageUnparseable == Page(TRUE, <<>>)

Pages == {PageStructured, PageContainersNoWorlds, PageHeadings, PageEmpty,
          PageNoWorldData, PageUnparseable}

\* ----------------------------------------------------------------- fetcher
\* What fetch(url) can do: reject with a thrown value, or resolve with a
\* response (its status and its body text).
Rejection(isError, message) == [kind |-> "reject", isError |-> isError, message |-> message]
Response(ok, status, text) == [kind |-> "response", ok |-> ok, status |-> status, text |-> text]

Responses ==
    {Rejection(TRUE, "Network error"), Rejection(FALSE, "String error"),
     Response(FALSE, "404", PageEmpty)}
        \cup {Response(TRUE, "200", page) : page \in Pages}

\* scraper.ts:7-13
fetchHtml(response) ==
    IF response.kind = "reject" THEN Thrown(response.isError, response.message)
    ELSE IF ~response.ok THEN Thrown(TRUE, "HTTP error! status: " \o response.status)
    ELSE Returned(response.text)

\* ----------------------------------------------------------------- service
\* a normalization that folds case and keeps surrounding whitespace
normalizeWorldName_NoTrim(worldName) == toLowerCase(worldName)

\* CONTRIBUTING.md:313-315 (utils/index.ts)
normalizeWorldName(worldName) == trim(toLowerCase(worldName))

\* a cache that never expires
CacheHit_Stale(data, fetchTime, t) == data # NULL

\* a cache that expires one clock unit early
CacheHit_Early(data, fetchTime, t) == data # NULL /\ t - fetchTime < cacheExpirationMs - 1

\* index.ts:34  this.cachedData && now - this.lastFetchTime < this.cacheExpirationMs
CacheHit(data, fetchTime, t) == data # NULL /\ t - fetchTime < cacheExpirationMs

\* the generic selectors also when the specific ones found nothing
FallbackIfThrown_OnEmpty(html, specific) ==
    IF ~specific.threw /\ specific.value # <<>>
    THEN [ran |-> <<"parseWorldStatus">>, outcome |-> specific]
    ELSE [ran |-> <<"parseWorldStatus", "parseWorldStatusGeneric">>,
          outcome |-> parseWorldStatusGeneric(html)]

\* index.ts:48-68: the generic selectors when the specific ones raised
FallbackIfThrown(html, specific) ==
    IF ~specific.threw
    THEN [ran |-> <<"parseWorldStatus">>, outcome |-> specific]
    ELSE [ran |-> <<"parseWorldStatus", "parseWorldStatusGeneric">>,
          outcome |-> parseWorldStatusGeneric(html)]

\* index.ts:46-68: the specific selectors first, the generic ones when they raise
ParseWithFallback(html) == FallbackIfThrown(html, parseWorldStatus(html))

\* the parse of every page fetchHtml can resolve with
Parsed == [html \in Pages |-> ParseWithFallback(html)]

\* a catch block that rethrows the message it caught
WrapError_Raw(error) == IF error.isError THEN error.message ELSE "Unknown error"

\* index.ts:85-93: the error the catch block throws
WrapError(error) ==
    "Failed to fetch world status: "
        \o (IF error.isError THEN error.message ELSE "Unknown error")

\* a catch block that ages the cell by one expiration
CellAfterFailure_Aged(data, fetchTime) ==
    [cachedData |-> data, lastFetchTime |-> fetchTime - cacheExpirationMs]

\* a catch block that empties the cell
CellAfterFailure_Cleared(data, fetchTime) == [cachedData |-> NULL, lastFetchTime |-> 0]

\* a catch block that caches an empty result that stays fresh
CellAfterFailure_Sticky(data, fetchTime) ==
    [cachedData |-> [ref |-> 0, dataCenters |-> <<>>], lastFetchTime |-> MaxTime]

\* index.ts:85-93: the cache cell the catch block leaves behind
CellAfterFailure(data, fetchTime) == [cachedData |-> data, lastFetchTime |-> fetchTime]

\* a successful refresh that returns the parsed result without storing it
CellAfterSuccess_NotStored(dataCenters, started) ==
    [cachedData |-> NULL, lastFetchTime |-> started]

\* index.ts:70-72: the cache cell after a successful parse by a call that
\* read the clock at `started`
CellAfterSuccess(dataCenters, started) == [cachedData |-> dataCenters, lastFetchTime |-> started]

\* the first element of a sequence that passes, or null
FirstOr(hits) == IF hits = <<>> THEN NULL ELSE hits[1]

\* a flattening that takes the data centers last to first
FlatWorlds_GroupsReversed(dataCenters) ==
    Flatten([i \in 1..Len(dataCenters) |-> dataCenters[Len(dataCenters) + 1 - i].worlds])

\* index.ts:142-145
FlatWorlds(dataCenters) == Flatten([i \in 1..Len(dataCenters) |-> dataCenters[i].worlds])

\* index.ts:111-127
FindWorld(dataCenters, worldName) ==
    LET same(world) == normalizeWorldName(world.name) = normalizeWorldName(worldName)
    IN FirstOr(SelectSeq(FlatWorlds(dataCenters), same))

\* a lookup of data centers by the exact name
FindDataCenter_Exact(dataCenters, dataCenterName) ==
    LET same(dc) == dc.name = dataCenterName IN FirstOr(SelectSeq(dataCenters, same))

\* index.ts:153-162
FindDataCenter(dataCenters, dataCenterName) ==
    LET same(dc) == normalizeWorldName(dc.name) = normalizeWorldName(dataCenterName)
    IN FirstOr(SelectSeq(dataCenters, same))

\* a filter that stops at the first data center of the region
InRegion_FirstOnly(dataCenters, region) ==
    LET inRegion(dc) == dc.region = region
    IN IF SelectSeq(dataCenters, inRegion) = <<>> THEN <<>>
       ELSE <<SelectSeq(dataCenters, inRegion)[1]>>

\* index.ts:170-175
InRegion(dataCenters, region) ==
    LET inRegion(dc) == dc.region = region IN SelectSeq(dataCenters, inRegion)

\* the query methods with the arguments tried
Queries ==
    {Query("getAllWorlds", NULL), Query("getAllWorldsFlat", NULL),
     Query("checkWorldStatus", <<" ","O","M","E","G","A"," ">>),
     Query("getDataCenter", <<"a","e","t","h","e","r">>),
     Query("getWorldsByRegion", "eu")}

\* the arrays a refresh can cache
ParsedArrays == {Parsed[html].outcome.value : html \in {h \in Pages : ~Parsed[h].outcome.threw}}

\* index.ts:101-175: what the lookups of the query methods give on every
\* array that can be cached
Lookups ==
    [q \in Queries, dataCenters \in ParsedArrays |->
        CASE q[1] = "getAllWorldsFlat" -> FlatWorlds(dataCenters)
          [] q[1] = "checkWorldStatus" -> FindWorld(dataCenters, q[2])
          [] q[1] = "getDataCenter" -> FindDataCenter(dataCenters, q[2])
          [] q[1] = "getWorldsByRegion" -> InRegion(dataCenters, q[2])
          [] OTHER -> dataCenters]

\* query methods that hand out a copy of the cached array
Answer_Copy(method, arg, data) ==
    IF method = "getAllWorlds" THEN [ref |-> 0, dataCenters |-> data.dataCenters]
    ELSE Lookups[<<method, arg>>, data.dataCenters]

\* index.ts:101-175: what a query method returns from the array object
\* fetchWorldStatus() resolved with (getAllWorlds: that object itself)
Answer(method, arg, data) ==
    IF method = "getAllWorlds" THEN data ELSE Lookups[<<method, arg>>, data.dataCenters]

Idle == [pc |-> "idle"]

VARIABLES
    now,            \* Date.now()
    cachedData,     \* index.ts:22: NULL, or the array object cached
    lastFetchTime,  \* index.ts:23
    calls,          \* per caller: idle, or awaiting fetchHtml
    returned,       \* what the step just taken settled a query promise with, or
                    \* "pending" when it left the promise awaiting fetchHtml
    fetchCount,     \* calls of fetchHtml so far
    missCount,      \* queries so far that found the cache empty or expired
    lastGood,       \* the last array a refresh wrote, with its capture time
    cleared,        \* "no", or what clearCache() found ("empty", "fresh",
                    \* "expired") when no query has been called since
    lastAll,        \* the object the last getAllWorlds() returned and its capture
                    \* time, while not cleared and younger than the expiration
    failedSince,    \* how a refresh failed since lastGood was written: "none",
                    \* "fetch" (fetchHtml raised) or "parse" (the parsers raised)
    cache,          \* the Cache<T> object
    cacheOut,       \* what the Cache<T> method just called returned
    written,        \* the value of the last set() not cleared since, and its time
    subject,        \* what a function is applied to: a document, or refreshed data
    result          \* what the function just applied returned

svars == <<now, cachedData, lastFetchTime, calls, returned, fetchCount, missCount,
           lastGood, failedSince, cleared, lastAll>>
cvars == <<cache, cacheOut, written>>
fvars == <<subject, result>>
vars == <<svars, cvars, fvars>>

NotConstructed == [constructed |-> FALSE]
NoReturn == [kind |-> "none"]
NoCacheReturn == [op |-> "none"]
NoSubject == [kind |-> "none"]
NoResult == [op |-> "none"]

InitService ==
    /\ cachedData = NULL
    /\ lastFetchTime = 0
    /\ calls = [p \in Callers |-> Idle]
    /\ returned = NoReturn
    /\ fetchCount = 0
    /\ missCount = 0
    /\ lastGood = NULL
    /\ failedSince = "none"
    /\ cleared = "no"
    /\ lastAll = NULL

Init ==
    /\ now = 0
    /\ InitService
    /\ cache = NotConstructed
    /\ cacheOut = NoCacheReturn
    /\ written = [present |-> FALSE]
    /\ subject = NoSubject
    /\ result = NoResult

\* time passes
Tick ==
    /\ now < MaxTime
    /\ now' = now + 1
    /\ returned' = NoReturn
    /\ cacheOut' = NoCacheReturn
    /\ lastAll' = IF lastAll # NULL /\ now' - lastAll.stamp >= cacheExpirationMs
                  THEN NULL ELSE lastAll
    /\ UNCHANGED <<cachedData, lastFetchTime, calls, fetchCount, missCount,
                   lastGood, failedSince, cleared, cache, written, fvars>>

\* index.ts:30-43 below a query method: the call up to its first await.  A
\* fresh cache answers at once; otherwise fetchHtml is called and awaited.
Call(p, q) ==
    /\ calls[p].pc = "idle"
    /\ IF CacheHit(cachedData, lastFetchTime, now)
       THEN /\ returned' = [kind |-> "value", method |-> q[1], arg |-> q[2],
                            fetched |-> FALSE, value |-> Answer(q[1], q[2], cachedData)]
            /\ lastAll' = IF q[1] = "getAllWorlds"
                          THEN [ref |-> cachedData.ref, stamp |-> lastFetchTime]
                          ELSE lastAll
            /\ UNCHANGED <<calls, fetchCount>>
       ELSE /\ fetchCount < MaxFetches
            /\ calls' = [calls EXCEPT ![p] = [pc |-> "fetching", method |-> q[1],
                                              arg |-> q[2], now |-> now,
                                              fetch |-> fetchCount + 1,
                                              afterError |-> returned.kind = "error"]]
            /\ fetchCount' = fetchCount + 1
            /\ returned' = [kind |-> "pending", afterClear |-> cleared]
            /\ lastAll' = lastAll
    /\ cleared' = "no"
    /\ missCount' = IF cachedData = NULL \/ now - lastFetchTime >= cacheExpirationMs
                    THEN missCount + 1 ELSE missCount
    /\ UNCHANGED <<now, cachedData, lastFetchTime, lastGood, failedSince, cvars, fvars>>

\* index.ts:85-93
Failure(error, ran, data, fetchTime) ==
    [ok |-> FALSE, cell |-> CellAfterFailure(data, fetchTime), ran |-> ran,
     cause |-> error, message |-> WrapError(error)]

\* index.ts:70-84
Success(call, html, ran, dataCenters) ==
    [ok |-> TRUE, cell |-> CellAfterSuccess(dataCenters, call.now), ran |-> ran,
     html |-> html, value |-> Answer(call.method, call.arg, dataCenters)]

\* a refresh that treats an empty list of data centers as a failure
AfterParse_EmptyIsError(call, html, parse, data, fetchTime) ==
    IF parse.outcome.threw THEN Failure(parse.outcome, parse.ran, data, fetchTime)
    ELSE IF parse.outcome.value = <<>>
    THEN Failure(Thrown(TRUE, "No world data found"), parse.ran, data, fetchTime)
    ELSE Success(call, html, parse.ran,
                 [ref |-> call.fetch, dataCenters |-> parse.outcome.value])

\* index.ts:46-93
AfterParse(call, html, parse, data, fetchTime) ==
    IF parse.outcome.threw THEN Failure(parse.outcome, parse.ran, data, fetchTime)
    ELSE Success(call, html, parse.ran,
                 [ref |-> call.fetch, dataCenters |-> parse.outcome.value])

\* index.ts:43-93
AfterFetch(call, html, data, fetchTime) ==
    IF html.threw THEN Failure(html, <<>>, data, fetchTime)
    ELSE AfterParse(call, html.value, Parsed[html.value], data, fetchTime)

\* index.ts:42-93: what the awaited fetch and the parse settle the call with
Refresh(call, response, data, fetchTime) ==
    AfterFetch(call, fetchHtml(response), data, fetchTime)

\* the awaited fetchHtml settles and the refresh succeeds
RefreshSucceeds(p, response) ==
    /\ calls[p].pc = "fetching"
    /\ calls' = [calls EXCEPT ![p] = Idle]
    /\ \E r \in {Refresh(calls[p], response, cachedData, lastFetchTime)} :
        /\ r.ok
        /\ cachedData' = r.cell.cachedData
        /\ lastFetchTime' = r.cell.lastFetchTime
        /\ returned' = [kind |-> "value", method |-> calls[p].method,
                        arg |-> calls[p].arg, fetched |-> TRUE, value |-> r.value,
                        ran |-> r.ran, html |-> r.html,
                        afterError |-> calls[p].afterError]
        /\ lastGood' = [value |-> r.cell.cachedData, stamp |-> r.cell.lastFetchTime]
        /\ lastAll' = IF calls[p].method # "getAllWorlds" THEN lastAll
                      ELSE IF now - r.cell.lastFetchTime >= cacheExpirationMs THEN NULL
                      ELSE [ref |-> r.cell.cachedData.ref, stamp |-> r.cell.lastFetchTime]
    /\ failedSince' = "none"
    /\ UNCHANGED <<now, fetchCount, missCount, cleared, cvars, fvars>>

\* a refresh that calls the fetcher again when the fetch or the parse failed
RefreshFails_Retries(p, response) ==
    /\ calls[p].pc = "fetching"
    /\ ~Refresh(calls[p], response, cachedData, lastFetchTime).ok
    /\ fetchCount < MaxFetches
    /\ fetchCount' = fetchCount + 1
    /\ calls' = [calls EXCEPT ![p].fetch = fetchCount + 1]
    /\ returned' = NoReturn
    /\ UNCHANGED <<now, cachedData, lastFetchTime, missCount, lastGood, failedSince,
                   cleared, lastAll, cvars, fvars>>

\* a catch block that does not raise but awaits the fetch again
RefreshFails_WaitsAgain(p, response) ==
    /\ calls[p].pc = "fetching"
    /\ calls' = calls
    /\ ~Refresh(calls[p], response, cachedData, lastFetchTime).ok
    /\ returned' = [kind |-> "retrying"]
    /\ UNCHANGED <<now, cachedData, lastFetchTime, fetchCount, missCount, lastGood,
                   failedSince, cleared, lastAll, cvars, fvars>>

\* the awaited fetchHtml settles and the refresh fails
RefreshFails(p, response) ==
    /\ calls[p].pc = "fetching"
    /\ calls' = [calls EXCEPT ![p] = Idle]
    /\ \E r \in {Refresh(calls[p], response, cachedData, lastFetchTime)} :
        /\ ~r.ok
        /\ cachedData' = r.cell.cachedData
        /\ lastFetchTime' = r.cell.lastFetchTime
        /\ returned' = [kind |-> "error", method |-> calls[p].method,
                        arg |-> calls[p].arg, message |-> r.message, cause |-> r.cause,
                        ran |-> r.ran]
        /\ failedSince' = IF lastGood = NULL THEN "none"
                          ELSE IF r.ran = <<>> THEN "fetch" ELSE "parse"
    /\ UNCHANGED <<now, fetchCount, missCount, lastGood, cleared, lastAll, cvars, fvars>>

\* a clearCache() that leaves the cell as it is
clearCache_KeepsCell ==
    /\ cachedData' = cachedData
    /\ lastFetchTime' = lastFetchTime
    /\ lastGood' = NULL
    /\ failedSince' = "none"
    /\ returned' = [kind |-> "cleared"]
    /\ cleared' = IF cachedData = NULL THEN "empty"
                  ELSE IF now - lastFetchTime < cacheExpirationMs THEN "fresh"
                  ELSE "expired"
    /\ lastAll' = NULL
    /\ UNCHANGED <<now, calls, fetchCount, missCount, cvars, fvars>>

\* index.ts:180-184
clearCache ==
    /\ cachedData' = NULL
    /\ lastFetchTime' = 0
    /\ lastGood' = NULL
    /\ failedSince' = "none"
    /\ returned' = [kind |-> "cleared"]
    /\ cleared' = IF cachedData = NULL THEN "empty"
                  ELSE IF now - lastFetchTime < cacheExpirationMs THEN "fresh"
                  ELSE "expired"
    /\ lastAll' = NULL
    /\ UNCHANGED <<now, calls, fetchCount, missCount, cvars, fvars>>

Next ==
    \/ Tick
    \/ \E p \in Callers, q \in Queries : Call(p, q)
    \/ \E p \in Callers, response \in Responses : RefreshSucceeds(p, response)
    \/ \E p \in Callers, response \in Responses : RefreshFails(p, response)
    \/ clearCache

Spec == Init /\ [][Next]_vars

\* index.ts:43: the promise caller p awaits settles and the call goes on to
\* its end
Settles(p) ==
    \E response \in Responses : RefreshSucceeds(p, response) \/ RefreshFails(p, response)

\* what the continuation of an awaited fetch changes: the caller's position
\* and the kind of what the step gave back
settled == <<calls, returned.kind>>

\* every fetch awaited completes and the call that awaits it goes on
SpecLive == Init /\ [][Next]_vars /\ \A p \in Callers : WF_settled(Settles(p))

\* ------------------------------------------------- properties of the service
\* the parsers applied on their own to every page
Primary == [html \in Pages |-> parseWorldStatus(html)]
Generic == [html \in Pages |-> parseWorldStatusGeneric(html)]

BothParsers == <<"parseWorldStatus", "parseWorldStatusGeneric">>

\* a value was written, has not been cleared since, and less than one
\* expiration has passed since its capture time
Fresh == lastGood # NULL /\ now - lastGood.stamp < cacheExpirationMs

\* the step returned from the cache / returned what it fetched
AnsweredFromCache == returned.kind = "value" /\ ~returned.fetched
AnsweredByRefresh == returned.kind = "value" /\ returned.fetched

\* what each query method computes from an array of data centers, written
\* out for the arguments tried
Expected(method, dataCenters) ==
    CASE method = "getAllWorldsFlat" -> FlatWorlds(dataCenters)
      [] method = "checkWorldStatus" -> FindWorld(dataCenters, s_Omega)
      [] method = "getDataCenter" -> FindDataCenter(dataCenters, s_Aether)
      [] method = "getWorldsByRegion" -> InRegion(dataCenters, "eu")

\* C1: while the cache holds a value captured less than one expiration ago
\* and not cleared since, no step calls the fetcher and no query starts
\* waiting for one; a query answered in such a state gets the cached array
\* itself (getAllWorlds) or the lookup on it (the four other methods).
C1_FreshCacheAnswersWithoutFetch ==
    [][Fresh =>
        /\ fetchCount' = fetchCount
        /\ \A p \in Callers : calls[p].pc = "idle" => calls'[p].pc = "idle"
        /\ AnsweredFromCache' =>
              IF returned'.method = "getAllWorlds"
              THEN returned'.value = lastGood.value
              ELSE returned'.value = Expected(returned'.method, lastGood.value.dataCenters)
      ]_vars

\* C1 happens: a lookup was answered from a cache one clock unit old, after
\* the single fetch that filled it
C1_Witness ==
    /\ AnsweredFromCache
    /\ returned.method = "checkWorldStatus"
    /\ returned.value # NULL
    /\ fetchCount = 1
    /\ lastGood # NULL
    /\ now - lastGood.stamp = 1

\* C2: a refresh that fails, in the fetch or in the parse, leaves the cached
\* array and the capture time exactly as they were.
C2_FailedRefreshKeepsCell ==
    [][returned'.kind = "error" => UNCHANGED <<cachedData, lastFetchTime>>]_vars

\* C2 happens: a parse failure was returned while the cell holds the array
\* of an earlier refresh
C2_Witness ==
    /\ returned.kind = "error"
    /\ returned.ran # <<>>
    /\ cachedData # NULL
    /\ lastGood # NULL
    /\ cachedData = lastGood.value
    /\ lastFetchTime = lastGood.stamp

\* C3 as stated: at no time are two fetches of one instance in flight.
C3_AtMostOneFetchInFlight ==
    Cardinality({p \in Callers : calls[p].pc = "fetching"}) <= 1

\* C3 amended: overlapping misses are not coalesced.  A query answers from
\* the cache only when the cached value is fresh; every query that starts
\* waiting calls the fetcher itself, once, whatever other fetches are in
\* flight, so there are as many fetches as misses; and a waiting caller is
\* settled with the array of its own fetch, which it writes to the cell.
C3_EveryMissFetchesForItself ==
    [][/\ AnsweredFromCache' => Fresh
       /\ \A p \in Callers :
            (calls[p].pc = "idle" /\ calls'[p].pc = "fetching") =>
                /\ ~Fresh
                /\ fetchCount' = fetchCount + 1
                /\ calls'[p].fetch = fetchCount'
                /\ \A o \in Callers \ {p} : calls'[o].pc = calls[o].pc
       /\ missCount' = fetchCount'
       /\ AnsweredByRefresh' =>
            \E p \in Callers :
                /\ calls[p].pc = "fetching"
                /\ calls'[p].pc = "idle"
                /\ cachedData'.ref = calls[p].fetch
                /\ returned'.method = "getAllWorlds" => returned'.value.ref = calls[p].fetch
      ]_vars

\* C3 amended happens: the second of two overlapping getAllWorlds calls was
\* settled with the array of its own fetch while the first fetch is still
\* in flight
C3_Witness ==
    /\ AnsweredByRefresh
    /\ returned.method = "getAllWorlds"
    /\ returned.value.ref = 2
    /\ \E p \in Callers : calls[p].pc = "fetching" /\ calls[p].fetch = 1

\* C5: after a refresh failed in the fetch while an earlier refresh's array
\* was cached, and until the expiration of that array has elapsed, the cell
\* still holds it, no query calls the fetcher, and getAllWorlds returns that
\* array.
C5_CachedDataSurvivesFailedRefresh ==
    [][(Fresh /\ failedSince = "fetch") =>
        /\ cachedData = lastGood.value
        /\ now - lastFetchTime < cacheExpirationMs
        /\ fetchCount' = fetchCount
        /\ (AnsweredFromCache' /\ returned'.method = "getAllWorlds") =>
              returned'.value = lastGood.value
        /\ returned'.kind # "error" \/ \E p \in Callers : calls[p].pc = "fetching"
      ]_vars

\* C5 happens: getAllWorlds was answered from the cache after a fetch
\* failure that followed the refresh which filled it
C5_Witness ==
    /\ AnsweredFromCache
    /\ returned.method = "getAllWorlds"
    /\ failedSince = "fetch"
    /\ lastGood # NULL
    /\ returned.value = lastGood.value

BothYieldNothing(html) ==
    /\ Primary[html].threw \/ Primary[html].value = <<>>
    /\ ~Generic[html].threw
    /\ Generic[html].value = <<>>

\* C8 as stated: a refresh does not succeed on a page with content from
\* which neither parser gets a data center, and an empty list of data
\* centers is never in the cache.
C8_EmptyListNeverCached ==
    /\ (AnsweredByRefresh /\ returned.html.nodes # <<>>) => ~BothYieldNothing(returned.html)
    /\ cachedData # NULL => cachedData.dataCenters # <<>>

\* no data center comes out of the parser(s) the refresh runs on the page
ZeroGroups(html) ==
    IF Primary[html].threw
    THEN ~Generic[html].threw /\ Generic[html].value = <<>>
    ELSE Primary[html].value = <<>>

\* C8 amended: a page from which the parsers run give no data center does
\* not fail the refresh: the empty list is cached with the capture time of
\* the call and returned.  A refresh fails in the parse only with the error
\* the generic parser itself raised.
C8_EmptyListIsCached ==
    /\ AnsweredByRefresh =>
        (ZeroGroups(returned.html) <=> cachedData.dataCenters = <<>>)
    /\ (AnsweredByRefresh /\ ZeroGroups(returned.html)) =>
        /\ lastFetchTime = lastGood.stamp
        /\ lastGood.value = cachedData
        /\ returned.method = "getAllWorlds" => returned.value.dataCenters = <<>>
    /\ (returned.kind = "error" /\ returned.ran # <<>>) => returned.cause = ParseLibraryError

\* C8 amended happens: the page with a list of other things was refreshed,
\* both parsers ran, and getAllWorlds returned the empty list now cached
C8_Witness ==
    /\ AnsweredByRefresh
    /\ returned.html = PageNoWorldData
    /\ returned.ran = BothParsers
    /\ returned.method = "getAllWorlds"
    /\ cachedData.dataCenters = <<>>

\* a document the HTML parser accepts, with no data center container and no
\* heading in it
NoWorldData(html) ==
    /\ ~html.parseThrows
    /\ querySelectorAll(html.nodes, 0, IsDatacenterSection) = <<>>
    /\ querySelectorAll(html.nodes, 0, IsHeading) = <<>>

\* C9 as stated: parseWorldStatus returns the empty sequence, and does not
\* raise, on every well-formed page without world data that a refresh
\* parses.
C9_PrimaryReturnsEmptyOnNoWorldData ==
    (AnsweredByRefresh /\ NoWorldData(returned.html)) =>
        Primary[returned.html] = Returned(<<>>)

C12_SuccessiveGetAllWorldsIdentical ==
    [][(/\ AnsweredFromCache'
        /\ returned'.method = "getAllWorlds"
        /\ lastAll # NULL
        /\ now - lastAll.stamp < cacheExpirationMs) =>
            returned'.value.ref = lastAll.ref
      ]_vars

\* C12 amended: getAllWorlds() returns the stored object itself, never a
\* copy: a refreshing call returns the object it writes to the cell, a call
\* answered from the cache returns the object in the cell, without a
\* fetch.  So the second of two successive calls returns the object the
\* first returned whenever the cell still holds that object, that is when
\* no other refresh has written the cell between them.
C12_GetAllWorldsReturnsStoredObject ==
    [][/\ (AnsweredByRefresh' /\ returned'.method = "getAllWorlds") =>
            (returned'.value = cachedData' /\ returned'.value.ref = lastGood'.value.ref)
       /\ (AnsweredFromCache' /\ returned'.method = "getAllWorlds") =>
            /\ returned'.value = cachedData
            /\ returned'.value.ref = lastGood.value.ref
            /\ fetchCount' = fetchCount
            /\ (lastAll # NULL /\ lastAll.ref = lastGood.value.ref) =>
                  returned'.value.ref = lastAll.ref
      ]_vars

\* C12 amended happens: one clock unit after a getAllWorlds() returned the
\* object of the only fetch, a getAllWorlds() was answered from the cache
\* with that object
C12_Witness ==
    /\ AnsweredFromCache
    /\ returned.method = "getAllWorlds"
    /\ fetchCount = 1
    /\ lastAll # NULL
    /\ returned.value.ref = lastAll.ref
    /\ now - lastAll.stamp = 1

\* C27: a successful refresh stamps the cache with the time at which it
\* writes the parsed result, so that the value is fresh for a whole
\* expiration from that write, however long the fetch took.
C27_CaptureTimeIsWriteTime ==
    [][AnsweredByRefresh' => (lastFetchTime' = now' /\ Fresh')]_vars

\* C28: the fetcher is called only by a query that starts waiting, once;
\* a step that settles a query calls no fetcher, and when the fetch or the
\* parse failed the waiting query is settled with the error at once.
C28_NoRetry ==
    [][/\ fetchCount' \in {fetchCount, fetchCount + 1}
       /\ (fetchCount' = fetchCount + 1) <=> (returned'.kind = "pending")
       /\ returned'.kind = "pending" =>
              \E p \in Callers : calls[p].pc = "idle" /\ calls'[p].pc = "fetching"
       /\ returned'.kind = "error" =>
              /\ fetchCount' = fetchCount
              /\ \E p \in Callers :
                     /\ calls[p].pc = "fetching"
                     /\ calls'[p].pc = "idle"
                     /\ \A o \in Callers \ {p} : calls'[o] = calls[o]
      ]_vars

\* a query failed on a page neither parser can read, after one fetch
C28_Witness ==
    /\ returned.kind = "error"
    /\ Len(returned.ran) = 2
    /\ fetchCount = 1
    /\ missCount = 1
    /\ \A p \in Callers : calls[p].pc = "idle"

\* C29: the cache cell is empty at construction; after every step it
\* holds data exactly when a refresh has succeeded since construction or
\* since the last clearCache(); only a successful refresh and clearCache()
\* change it, and a successful refresh writes it once, with its own result.
C29_CellLifecycle ==
    /\ cachedData = NULL
    /\ [][/\ (cachedData' # NULL) <=> (lastGood' # NULL)
          /\ cachedData' # cachedData =>
                 \/ AnsweredByRefresh' /\ cachedData' # NULL
                 \/ returned'.kind = "cleared" /\ cachedData' = NULL
          /\ AnsweredByRefresh' =>
                 \E p \in Callers :
                     /\ calls[p].pc = "fetching"
                     /\ calls'[p].pc = "idle"
                     /\ cachedData'.ref = calls[p].fetch
                     /\ lastGood'.value = cachedData'
         ]_vars

\* clearCache() has just emptied a cell that a successful refresh had filled
C29_Witness ==
    /\ returned.kind = "cleared"
    /\ cleared = "fresh"
    /\ cachedData = NULL
    /\ lastGood = NULL
    /\ fetchCount = 1
    /\ \A p \in Callers : calls[p].pc = "idle"

\* C30 as stated: the query called right after a query failed is never
\* answered from the cache: it fetches, and when its refresh succeeds the
\* cache is filled.
C30_NextQueryAfterFailureFetches ==
    [][/\ returned.kind = "error" => ~AnsweredFromCache'
       /\ (AnsweredByRefresh' /\ returned'.afterError) => cachedData' # NULL]_vars

\* C30 amended: a failure leaves nothing behind that later queries see.
\* The query called right after a query failed is answered from the cache
\* only when a refresh that overlapped the failed one has left a fresh
\* value; otherwise it calls the fetcher, and when its fetch and parse
\* succeed it is settled with a value and the cache holds its result.
C30_FailureLeavesNoErrorState ==
    [][/\ returned.kind = "error" =>
              /\ AnsweredFromCache' => Fresh
              /\ \A p \in Callers :
                     (calls[p].pc = "idle" /\ calls'[p].pc = "fetching") =>
                         /\ ~Fresh
                         /\ fetchCount' = fetchCount + 1
                         /\ calls'[p].afterError
       /\ (AnsweredByRefresh' /\ returned'.afterError) =>
              /\ cachedData' # NULL
              /\ lastGood'.value = cachedData'
              /\ \E p \in Callers :
                     /\ calls[p].pc = "fetching"
                     /\ calls[p].afterError
                     /\ cachedData'.ref = calls[p].fetch
      ]_vars

\* the query called right after a failed one fetched, succeeded and filled
\* the cache
C30_Witness ==
    /\ AnsweredByRefresh
    /\ returned.afterError
    /\ fetchCount = 2
    /\ missCount = 2
    /\ cachedData # NULL
    /\ cachedData.ref = 2
    /\ Fresh

\* C36: provided the fetch it awaits completes, every query method call
\* ends: a call that found the cache fresh has returned in its own step,
\* and a call that started waiting is settled, with a value or with the
\* wrapped error, by the step that follows the fetch, parse and lookup
\* included.
C36_EveryQueryTerminates ==
    \A p \in Callers :
        (calls[p].pc = "fetching") ~>
            (calls[p].pc = "idle" /\ returned.kind \in {"value", "error"})

\* two queries that waited were both settled, the last one after the
\* fallback strategy walked the siblings of the headings
C36_Witness ==
    /\ \A p \in Callers : calls[p].pc = "idle"
    /\ fetchCount = 2
    /\ missCount = 2
    /\ AnsweredByRefresh
    /\ returned.html = PageHeadings
    /\ returned.ran = BothParsers

\* C37 as stated: what the cache serves after clearCache() comes from a
\* fetch that started after it.  While no query has been called since
\* clearCache() returned, every fetch in flight started before it: so in
\* that time no refresh fills the cell, and no value is served from it.
C37_InFlightRefreshDoesNotRefill ==
    [][cleared # "no" => (cachedData' = NULL /\ ~AnsweredFromCache')]_vars

\* C38 as stated: from one successful write of the cell to the next, with
\* no clearCache() between them, the capture time does not decrease and
\* the refresh that writes started after the one whose result it replaces.
C38_WritesInStartOrder ==
    [][(AnsweredByRefresh' /\ cachedData # NULL) =>
           /\ lastFetchTime' >= lastFetchTime
           /\ cachedData'.ref > cachedData.ref
      ]_vars

\* ---------------------------------------------------------------- Cache<T>
\* the expirations a Cache is constructed with
ExpirationInputs == (0 - 1)..MaxExpiration

\* the values cached (T = string | string[] | null | undefined): "null",
\* "undefined" and "[]" stand for null, undefined and the empty array
CacheValues == {"test data", "other data", "null", "undefined", "[]"}

\* part_001:269-272 (utils/cache.ts)
Cache_new(expirationMs) ==
    [constructed |-> TRUE, cachedData |-> "null", hasValidData |-> FALSE,
     lastFetchTime |-> 0, expirationMs |-> expirationMs]

\* a cache still valid at the instant its expiration elapses
IsExpired_Late(c, t) == t - c.lastFetchTime > c.expirationMs

\* part_001:280  const isExpired = now - this.lastFetchTime >= this.expirationMs
IsExpired(c, t) == t - c.lastFetchTime >= c.expirationMs

\* part_001:278-300
Cache_get(c, t) == IF c.hasValidData /\ ~IsExpired(c, t) THEN c.cachedData ELSE "null"

\* part_001:306-311
Cache_set(c, data, t) ==
    [c EXCEPT !.cachedData = data, !.hasValidData = TRUE, !.lastFetchTime = t]

\* a clear that only resets the time
Cache_clear_TimeOnly(c) == [c EXCEPT !.lastFetchTime = 0]

\* part_001:353-358
Cache_clear(c) ==
    [c EXCEPT !.cachedData = "null", !.hasValidData = FALSE, !.lastFetchTime = 0]

\* number | null: <<>> for null, <<n>> for the number n
NullNumber == <<>>
Number(n) == <<n>>

\* a presence test on the payload's value
Cache_hasData_ByValue(c) == c.cachedData \notin {"null", "undefined"}

\* part_001:317-319
Cache_hasData(c) == c.hasValidData

\* part_001:325-329
Cache_isValid(c, t) ==
    IF ~c.hasValidData THEN FALSE ELSE t - c.lastFetchTime < c.expirationMs

\* part_001:335-338
Cache_getAge(c, t) == IF ~c.hasValidData THEN NullNumber ELSE Number(t - c.lastFetchTime)

\* Math.max(0, x)
ClampToZero(x) == IF x < 0 THEN 0 ELSE x

\* a remaining time that is not clamped
Remaining_Unclamped(c, age) == Number(c.expirationMs - age[1])

\* part_001:346-347
Remaining(c, age) == Number(ClampToZero(c.expirationMs - age[1]))

\* part_001:344-348
Cache_getTimeUntilExpiration(c, t) ==
    IF ~c.hasValidData THEN NullNumber ELSE Remaining(c, Cache_getAge(c, t))

\* part_001:364-378
Cache_getStats(c, t) ==
    [hasData |-> Cache_hasData(c), isValid |-> Cache_isValid(c, t),
     ageMs |-> Cache_getAge(c, t),
     timeUntilExpirationMs |-> Cache_getTimeUntilExpiration(c, t),
     expirationMs |-> c.expirationMs]

\* a read that drops the value it finds expired
AfterRead_Evicts(c, t) == IF c.hasValidData /\ IsExpired(c, t) THEN Cache_clear(c) ELSE c

\* part_001:278-348, 364-378: the cache after get(), hasData(), isValid(),
\* getAge(), getTimeUntilExpiration() or getStats(): none assigns a field
AfterRead(c, t) == c

\* what clear() finds in the cache
Found(c, t) ==
    IF ~c.hasValidData THEN "empty" ELSE IF IsExpired(c, t) THEN "expired" ELSE "fresh"

constructor(expirationMs) ==
    /\ ~cache.constructed
    /\ cache' = Cache_new(expirationMs)
    /\ cacheOut' = [op |-> "constructor", arg |-> expirationMs, threw |-> FALSE]
    /\ UNCHANGED <<svars, written, fvars>>

get ==
    /\ cache.constructed
    /\ cacheOut' = [op |-> "get", value |-> Cache_get(cache, now)]
    /\ cache' = AfterRead(cache, now)
    /\ UNCHANGED <<svars, written, fvars>>

hasData ==
    /\ cache.constructed
    /\ cacheOut' = [op |-> "hasData", value |-> Cache_hasData(cache)]
    /\ cache' = AfterRead(cache, now)
    /\ UNCHANGED <<svars, written, fvars>>

isValid ==
    /\ cache.constructed
    /\ cacheOut' = [op |-> "isValid", value |-> Cache_isValid(cache, now)]
    /\ cache' = AfterRead(cache, now)
    /\ UNCHANGED <<svars, written, fvars>>

getAge ==
    /\ cache.constructed
    /\ cacheOut' = [op |-> "getAge", value |-> Cache_getAge(cache, now)]
    /\ cache' = AfterRead(cache, now)
    /\ UNCHANGED <<svars, written, fvars>>

getTimeUntilExpiration ==
    /\ cache.constructed
    /\ cacheOut' = [op |-> "getTimeUntilExpiration",
                    value |-> Cache_getTimeUntilExpiration(cache, now)]
    /\ cache' = AfterRead(cache, now)
    /\ UNCHANGED <<svars, written, fvars>>

set(data) ==
    /\ cache.constructed
    /\ cache' = Cache_set(cache, data, now)
    /\ cacheOut' = [op |-> "set"]
    /\ written' = [present |-> TRUE, value |-> data, at |-> now]
    /\ UNCHANGED <<svars, fvars>>

clear ==
    /\ cache.constructed
    /\ cache' = Cache_clear(cache)
    /\ cacheOut' = [op |-> "clear"]
    /\ written' = [present |-> FALSE, found |-> Found(cache, now)]
    /\ UNCHANGED <<svars, fvars>>

getStats ==
    /\ cache.constructed
    /\ cacheOut' = [op |-> "getStats", stats |-> Cache_getStats(cache, now)]
    /\ cache' = AfterRead(cache, now)
    /\ UNCHANGED <<svars, written, fvars>>

NextCache ==
    \/ Tick
    \/ \E expirationMs \in ExpirationInputs : constructor(expirationMs)
    \/ get
    \/ \E data \in CacheValues : set(data)
    \/ clear
    \/ hasData
    \/ isValid
    \/ getAge
    \/ getTimeUntilExpiration
    \/ getStats

SpecCache == Init /\ [][NextCache]_vars

\* ------------------------------------------------- properties of Cache<T>
\* C4: get() returns the value of the last set() exactly when one was made,
\* not cleared since, and less than expirationMs has passed since it; from
\* expirationMs on, the instant expirationMs included, it returns null.
C4_ReadValidUntilExpiration ==
    cacheOut.op = "get" =>
        cacheOut.value = (IF written.present /\ now - written.at < cache.expirationMs
                          THEN written.value
                          ELSE "null")

\* C4 happens: get() returned null for a value set exactly expirationMs ago
C4_Witness ==
    /\ cacheOut.op = "get"
    /\ written.present
    /\ written.value = "test data"
    /\ cache.expirationMs > 0
    /\ now - written.at = cache.expirationMs
    /\ cacheOut.value = "null"

\* clear() was called and set() has not been called since
Cleared == "found" \in DOMAIN written

\* C25: from a clear() to the next set(), whatever clear() found (nothing,
\* a fresh value, an expired value), get() returns null and the statistics
\* show hasData false, isValid false, ageMs null, timeUntilExpirationMs null.
C25_ClearThenReadIsAbsent ==
    /\ cacheOut.op = "clear" => (Cleared /\ ~Cache_hasData(cache))
    /\ Cleared =>
           /\ cacheOut.op = "get" => cacheOut.value = "null"
           /\ cacheOut.op = "getStats" =>
                  /\ cacheOut.stats.hasData = FALSE
                  /\ cacheOut.stats.isValid = FALSE
                  /\ cacheOut.stats.ageMs = NullNumber
                  /\ cacheOut.stats.timeUntilExpirationMs = NullNumber

\* get() right after a clear() that found a fresh value returns null
C25_Witness ==
    /\ Cleared
    /\ written.found = "fresh"
    /\ cacheOut.op = "get"
    /\ cacheOut.value = "null"
    /\ now < cache.expirationMs

\* C26: the statistics agree with the last set() not cleared since: ageMs
\* and timeUntilExpirationMs are null exactly when hasData is false; with
\* data, ageMs is the time since that set() and timeUntilExpirationMs is
\* expirationMs - ageMs, or 0 when that is negative; isValid is true exactly
\* when there is data and ageMs < expirationMs.
C26_StatsAgreeWithCell ==
    cacheOut.op = "getStats" =>
        /\ cacheOut.stats.hasData = written.present
        /\ (cacheOut.stats.ageMs = NullNumber) <=> ~cacheOut.stats.hasData
        /\ (cacheOut.stats.timeUntilExpirationMs = NullNumber) <=> ~cacheOut.stats.hasData
        /\ cacheOut.stats.hasData =>
               /\ cacheOut.stats.ageMs = Number(now - written.at)
               /\ cacheOut.stats.timeUntilExpirationMs =
                      Number(IF cache.expirationMs - (now - written.at) > 0
                             THEN cache.expirationMs - (now - written.at) ELSE 0)
               /\ cacheOut.stats.timeUntilExpirationMs[1] >= 0
        /\ cacheOut.stats.isValid <=>
               (cacheOut.stats.hasData /\ now - written.at < cache.expirationMs)
        /\ cacheOut.stats.expirationMs = cache.expirationMs

\* statistics of a value older than its expiration: data, not valid, no
\* time left
C26_Witness ==
    /\ cacheOut.op = "getStats"
    /\ written.present
    /\ cache.expirationMs = 1
    /\ cacheOut.stats.hasData
    /\ ~cacheOut.stats.isValid
    /\ cacheOut.stats.ageMs = Number(2)
    /\ cacheOut.stats.timeUntilExpirationMs = Number(0)

\* the methods that only read the cache
ReadOps == {"get", "hasData", "isValid", "getAge", "getTimeUntilExpiration", "getStats"}

\* C31: get, hasData, isValid, getAge, getTimeUntilExpiration and getStats
\* leave the payload, the has-data flag and the capture time as they
\* were; a value read after its expiration is not evicted: the cell keeps
\* holding the last set() not cleared since, hasData() stays true and
\* getAge() is the time since that set(), beyond expirationMs too.
C31_ReadsLeaveTheCell ==
    [][/\ cacheOut'.op \in ReadOps => cache' = cache
       /\ written'.present =>
              /\ cache'.hasValidData
              /\ cache'.cachedData = written'.value
              /\ cache'.lastFetchTime = written'.at
       /\ cacheOut'.op = "hasData" => cacheOut'.value = written.present
       /\ (cacheOut'.op = "getAge" /\ written.present) =>
              cacheOut'.value = Number(now - written.at)
      ]_vars

\* getAge() returned an age beyond expirationMs and the cell still holds
\* the value set
C31_Witness ==
    /\ cacheOut.op = "getAge"
    /\ written.present
    /\ cache.expirationMs = 1
    /\ cacheOut.value = Number(3)
    /\ cache.hasValidData
    /\ cache.cachedData = written.value
    /\ cache.lastFetchTime = written.at

\* C39: whether the cache holds a value is kept apart from the value: after
\* set(v), for v null, undefined or the empty array as for any other v,
\* hasData() is true until clear(), isValid() is true until expirationMs has
\* passed or clear(), and get() returns v exactly when isValid() is true at
\* that instant, null otherwise.
C39_PresenceApartFromPayload ==
    /\ written.present =>
           /\ Cache_hasData(cache)
           /\ Cache_isValid(cache, now) <=> (now - written.at < cache.expirationMs)
    /\ (cache.constructed /\ ~written.present) =>
           (~Cache_hasData(cache) /\ ~Cache_isValid(cache, now))
    /\ cacheOut.op = "hasData" => cacheOut.value = written.present
    /\ cacheOut.op = "isValid" => cacheOut.value = Cache_isValid(cache, now)
    /\ cacheOut.op = "get" =>
           cacheOut.value = (IF Cache_isValid(cache, now) THEN written.value ELSE "null")

\* hasData() is true one clock unit after set(null), the value still valid
C39_Witness ==
    /\ cacheOut.op = "hasData"
    /\ cacheOut.value
    /\ written.present
    /\ written.value = "null"
    /\ now - written.at = 1
    /\ Cache_isValid(cache, now)
    /\ Cache_get(cache, now) = written.value

\* C6 as stated: the constructor raises on an expiration that is zero or
\* negative, so that no cache with such an expiration exists.
C6_NonPositiveExpirationRejected ==
    /\ (cacheOut.op = "constructor" /\ cacheOut.arg <= 0) => cacheOut.threw
    /\ cache.constructed => cache.expirationMs > 0

\* ------------------------------------------- the functions on their own
\* Documents for the parsers, beside the pages the service fetches.
s_Bang == <<"O","m","!">>
s_Heart == <<"<","3">>
s_NotAWorld == <<"N","o","t"," ","a"," ","w","o","r","l","d">>
s_Zurvan == <<"Z","u","r","v","a","n">>
s_Mana == <<"M","a","n","a">>

\* two containers of the same name, each with one complete world
DocDuplicateContainers ==
    Page(FALSE,
         <<El("DIV", "worldstatus__datacenter", <<>>, 0),
             El("H3", "", s_Aether, 1),
             El("UL", "", <<>>, 1),
               El("LI", "", <<>>, 3),
                 El("DIV", "worldstatus__world-name", s_Omega, 4),
                 El("DIV", "worldstatus__status", s_Online, 4),
           El("DIV", "worldstatus__datacenter", <<>>, 0),
             El("H3", "", s_Aether, 7),
             El("UL", "", <<>>, 7),
               El("LI", "", <<>>, 9),
                 El("DIV", "worldstatus__world-name", s_Odin, 10),
                 El("DIV", "worldstatus__status", W_New, 10)>>)

\* a heading repeated twice, each followed by a list with a matching item
DocDuplicateHeadings ==
    Page(FALSE,
         <<El("H2", "", s_Chaos, 0),
           El("UL", "", <<>>, 0),
             El("LI", "", s_Omega \o sp \o W_Standard, 2),
           El("H2", "", s_Chaos, 0),
           El("UL", "", <<>>, 0),
             El("LI", "", s_Odin \o sp \o W_New, 5)>>)

\* a heading repeated twice, the first followed by a list without a
\* matching item, the second by a list with one
DocRepeatedAfterEmpty ==
    Page(FALSE,
         <<El("H2", "", s_Chaos, 0),
           El("UL", "", <<>>, 0),
             El("LI", "", s_NotAWorld, 2),
           El("H2", "", s_Chaos, 0),
           El("UL", "", <<>>, 0),
             El("LI", "", s_Odin \o sp \o W_New, 5)>>)

\* containers: a header without a list, a header whose list has only an
\* incomplete item, and a complete one
DocHeaderWithoutMembers ==
    Page(FALSE,
         <<El("DIV", "worldstatus__datacenter", <<>>, 0),
             El("H3", "", s_Aether, 1),
           El("DIV", "worldstatus__datacenter", <<>>, 0),
             El("H3", "", s_Chaos, 3),
             El("UL", "", <<>>, 3),
               El("LI", "", <<>>, 5),
                 El("DIV", "worldstatus__world-name", s_Omega, 6),
           El("DIV", "worldstatus__datacenter", <<>>, 0),
             El("H3", "", s_Light, 8),
             El("UL", "", <<>>, 8),
               El("LI", "", <<>>, 10),
                 El("DIV", "worldstatus__world-name", s_Odin, 11),
                 El("DIV", "worldstatus__status", W_Congested, 11)>>)

\* headings: one whose list has no matching item, one with a matching
\* item, one with no list after it
DocHeadingWithoutMembers ==
    Page(FALSE,
         <<El("H2", "", s_Chaos, 0),
           El("UL", "", <<>>, 0),
             El("LI", "", s_NotAWorld, 2),
           El("H3", "", s_Light, 0),
           El("UL", "", <<>>, 0),
             El("LI", "", s_Odin \o sp \o W_New, 5),
           El("H4", "", s_Aether, 0)>>)

\* a container and a heading with names outside letters, digits, spaces,
\* hyphens and apostrophes
DocOddNames ==
    Page(FALSE,
         <<El("DIV", "worldstatus__datacenter", <<>>, 0),
             El("H3", "", s_Aether, 1),
             El("UL", "", <<>>, 1),
               El("LI", "", <<>>, 3),
                 El("DIV", "worldstatus__world-name", s_Bang, 4),
                 El("DIV", "worldstatus__status", s_Online, 4),
               El("LI", "", <<>>, 3),
                 El("DIV", "worldstatus__world-name", s_Odin, 7),
                 El("DIV", "worldstatus__status", s_Online, 7),
           El("H2", "", s_Heart, 0),
           El("UL", "", <<>>, 0),
             El("LI", "", s_Omega \o sp \o W_Standard, 11)>>)

\* containers: a complete one whose list has an item without status and an
\* item without name between two complete items, one without a header, and
\* a complete one
DocIncompleteBetween ==
    Page(FALSE,
         <<El("DIV", "worldstatus__datacenter", <<>>, 0),
             El("H3", "", s_Aether, 1),
             El("UL", "", <<>>, 1),
               El("LI", "", <<>>, 3),
                 El("DIV", "worldstatus__world-name", s_Omega, 4),
                 El("DIV", "worldstatus__status", s_Online, 4),
               El("LI", "", <<>>, 3),
                 El("DIV", "worldstatus__world-name", s_Gilgamesh, 7),
               El("LI", "", <<>>, 3),
                 El("DIV", "worldstatus__status", W_New, 9),
               El("LI", "", <<>>, 3),
                 El("DIV", "worldstatus__world-name", s_Odin, 11),
                 El("DIV", "worldstatus__status", W_Congested, 11),
           El("DIV", "worldstatus__datacenter", <<>>, 0),
             El("UL", "", <<>>, 14),
               El("LI", "", <<>>, 15),
                 El("DIV", "worldstatus__world-name", s_Gilgamesh, 16),
                 El("DIV", "worldstatus__status", W_Standard, 16),
           El("DIV", "worldstatus__datacenter", <<>>, 0),
             El("H3", "", s_Chaos, 19),
             El("UL", "", <<>>, 19),
               El("LI", "", <<>>, 21),
                 El("DIV", "worldstatus__world-name", s_Zurvan, 22),
                 El("DIV", "worldstatus__status", W_Preferred, 22)>>)

\* headings and lists that are all siblings: Mana followed by a list
\* without a matching item and then a list with one; Chaos followed by the
\* heading Light, a paragraph and a list; Aether followed by a block that
\* holds a list
DocSiblingPairing ==
    Page(FALSE,
         <<El("H2", "", s_Mana, 0),
           El("UL", "", <<>>, 0),
             El("LI", "", s_NotAWorld, 2),
           El("UL", "", <<>>, 0),
             El("LI", "", s_Zurvan \o sp \o W_Standard, 4),
           El("H2", "", s_Chaos, 0),
           El("H3", "", s_Light, 0),
           El("P", "", <<>>, 0),
           El("UL", "", <<>>, 0),
             El("LI", "", s_Omega \o sp \o W_Standard, 9),
           El("H4", "", s_Aether, 0),
           El("DIV", "", <<>>, 0),
             El("UL", "", <<>>, 12),
               El("LI", "", s_Odin \o sp \o W_New, 13)>>)

\* a heading followed by a list whose rows end with a population word in
\* lower case, in upper case and capitalised, and with rows that have no
\* name or a name with a digit
DocTokenCase ==
    Page(FALSE,
         <<El("H2", "", s_Chaos, 0),
           El("UL", "", <<>>, 0),
             El("LI", "", s_Omega \o sp \o w_congested, 2),
             El("LI", "", s_Odin \o sp \o toUpperCase(w_new), 2),
             El("LI", "", s_Zurvan \o sp \o W_Congested, 2),
             El("LI", "", W_Standard, 2),
             El("LI", "", <<"R","2">> \o sp \o W_New, 2),
             El("LI", "", sp \o s_Gilgamesh \o sp \o sp \o W_PreferredPlus \o sp, 2)>>)

Docs ==
    Pages \cup {DocDuplicateContainers, DocDuplicateHeadings, DocRepeatedAfterEmpty,
                DocHeaderWithoutMembers, DocHeadingWithoutMembers, DocOddNames,
                DocIncompleteBetween, DocSiblingPairing, DocTokenCase}

\* Refreshed data for the lookups of the query methods.
s_OMEGA == <<"O","M","E","G","A">>
s_omega_padded == <<" ","o","m","e","g","a"," ">>
s_AETHER == <<"A","E","T","H","E","R">>
s_aether_padded == <<" ","a","e","t","h","e","r"," ">>

Standard == [status |-> "online", population |-> "standard", newCharacterCreation |-> TRUE]
Congested == [status |-> "online", population |-> "congested", newCharacterCreation |-> FALSE]

\* the same world name, up to case, in two data centers
DataSameWorldTwice ==
    <<DataCenter(s_Chaos, <<World(s_Odin, Standard), World(s_Omega, Standard)>>),
      DataCenter(s_Light, <<World(s_OMEGA, Congested)>>)>>

\* the same data center name, up to case; a padded world name after another
DataSameDataCenterTwice ==
    <<DataCenter(s_Aether, <<World(s_Odin, Congested), World(s_omega_padded, Standard)>>),
      DataCenter(s_AETHER, <<World(s_Omega, Congested)>>)>>

\* error-handling.test.ts:99-114: a data center with no worlds, between others
DataWithEmptyDataCenter ==
    <<DataCenter(s_Mana, <<World(s_Odin, Standard)>>),
      DataCenter(s_Aether, <<>>),
      DataCenter(s_Chaos, <<World(s_Omega, Standard)>>)>>

\* two data centers of one region with another region between them
DataRegionsInterleaved ==
    <<DataCenter(s_Chaos, <<World(s_Odin, Standard)>>),
      DataCenter(s_Aether, <<World(s_Zurvan, Congested)>>),
      DataCenter(s_Light, <<World(s_Omega, Standard)>>)>>

DataSets ==
    {DataSameWorldTwice, DataSameDataCenterTwice, DataWithEmptyDataCenter,
     DataRegionsInterleaved, <<>>}

WorldNames == {s_Omega, s_OMEGA, s_omega_padded, s_Odin, s_Zurvan}
DataCenterNames == {s_Aether, s_AETHER, s_aether_padded, s_Chaos, s_Mana, s_Zurvan}
Regions == {"na", "eu", "jp", "oc"}

\* Status texts for parseStatusText: an availability part, a population
\* part, or both, in either order, in mixed case, padded or not.

AvailabilityTexts ==
    {<<>>, s_Online, w_offline, toUpperCase(w_maintenance),
     <<"M">> \o Tail(w_maintenance), w_offline \o sp \o w_maintenance}

PopulationTexts ==
    {<<>>, W_Standard, W_Preferred, W_PreferredPlus, W_Congested, W_New,
     toUpperCase(w_congested), W_New \o sp \o W_Congested,
     W_Congested \o sp \o W_Preferred, <<"I","n","v","a","l","i","d">>}

StatusTexts ==
    {a \o sp \o b : a \in AvailabilityTexts, b \in PopulationTexts}
        \cup {sp \o b \o sp \o a \o sp : a \in AvailabilityTexts, b \in PopulationTexts}

\* Names for inferRegion: the names of the four lists in lower, upper and
\* capitalised case, and names in none of them.
ListedNames ==
    {n_aether, n_crystal, n_dynamis, n_primal, n_chaos, n_light,
     n_elemental, n_gaia, n_mana, n_meteor, n_materia}

RegionInputs ==
    ListedNames \cup {toUpperCase(n) : n \in ListedNames}
        \cup {<<UpperChar(Head(n))>> \o Tail(n) : n \in ListedNames}
        \cup {<<>>, s_Zurvan, sp \o n_chaos \o sp, n_mana \o n_mana, n_materia \o <<"2">>}

Subjects ==
    {[kind |-> "document", html |-> html] : html \in Docs}
        \cup {[kind |-> "data", dataCenters |-> dataCenters] : dataCenters \in DataSets}
        \cup {[kind |-> "statusText", statusText |-> t] : t \in StatusTexts}
        \cup {[kind |-> "dcName", dcName |-> n] : n \in RegionInputs}

InitFunctions ==
    /\ now = 0
    /\ InitService
    /\ cache = NotConstructed
    /\ cacheOut = NoCacheReturn
    /\ written = [present |-> FALSE]
    /\ subject \in Subjects
    /\ result = NoResult

\* scraper.ts:18-68 applied to the document
ApplyParseWorldStatus ==
    /\ subject.kind = "document"
    /\ result' = [op |-> "parseWorldStatus", out |-> parseWorldStatus(subject.html)]
    /\ UNCHANGED <<svars, cvars, subject>>

\* scraper.ts:74-134 applied to the document
ApplyParseWorldStatusGeneric ==
    /\ subject.kind = "document"
    /\ result' = [op |-> "parseWorldStatusGeneric",
                  out |-> parseWorldStatusGeneric(subject.html)]
    /\ UNCHANGED <<svars, cvars, subject>>

\* index.ts:101-128 once fetchWorldStatus() has resolved with the data
checkWorldStatus(worldName) ==
    /\ subject.kind = "data"
    /\ result' = [op |-> "checkWorldStatus", arg |-> worldName,
                  value |-> FindWorld(subject.dataCenters, worldName)]
    /\ UNCHANGED <<svars, cvars, subject>>

\* index.ts:152-163 once fetchWorldStatus() has resolved with the data
getDataCenter(dataCenterName) ==
    /\ subject.kind = "data"
    /\ result' = [op |-> "getDataCenter", arg |-> dataCenterName,
                  value |-> FindDataCenter(subject.dataCenters, dataCenterName)]
    /\ UNCHANGED <<svars, cvars, subject>>

\* index.ts:170-175 once fetchWorldStatus() has resolved with the data
getWorldsByRegion(region) ==
    /\ subject.kind = "data"
    /\ result' = [op |-> "getWorldsByRegion", arg |-> region,
                  value |-> InRegion(subject.dataCenters, region)]
    /\ UNCHANGED <<svars, cvars, subject>>

\* index.ts:142-145 once fetchWorldStatus() has resolved with the data
getAllWorldsFlat ==
    /\ subject.kind = "data"
    /\ result' = [op |-> "getAllWorldsFlat", value |-> FlatWorlds(subject.dataCenters)]
    /\ UNCHANGED <<svars, cvars, subject>>

\* scraper.ts:139-180 applied to the status text
ApplyParseStatusText ==
    /\ subject.kind = "statusText"
    /\ result' = [op |-> "parseStatusText", out |-> parseStatusText(subject.statusText)]
    /\ UNCHANGED <<svars, cvars, subject>>

\* scraper.ts:185-210 applied to the data center name
ApplyInferRegion ==
    /\ subject.kind = "dcName"
    /\ result' = [op |-> "inferRegion", out |-> inferRegion(subject.dcName)]
    /\ UNCHANGED <<svars, cvars, subject>>

NextFunctions ==
    \/ ApplyParseWorldStatus
    \/ ApplyParseWorldStatusGeneric
    \/ ApplyParseStatusText
    \/ ApplyInferRegion
    \/ \E worldName \in WorldNames : checkWorldStatus(worldName)
    \/ \E dataCenterName \in DataCenterNames : getDataCenter(dataCenterName)
    \/ \E region \in Regions : getWorldsByRegion(region)
    \/ getAllWorldsFlat

SpecFunctions == InitFunctions /\ [][NextFunctions]_vars

\* ----------------------------------------------- properties of the lookups
\* equal up to surrounding whitespace and letter case
SameName(a, b) == toLowerCase(trim(a)) = toLowerCase(trim(b))

\* <<i, j>> for member j of group i
Members(dataCenters) ==
    UNION {{<<i, j>> : j \in 1..Len(dataCenters[i].worlds)} : i \in 1..Len(dataCenters)}

\* group-then-member order
Earlier(p, q) == p[1] < q[1] \/ (p[1] = q[1] /\ p[2] < q[2])

WorldMatches(dataCenters, worldName) ==
    {p \in Members(dataCenters) : SameName(dataCenters[p[1]].worlds[p[2]].name, worldName)}

\* C13: checkWorldStatus returns the first world, in group-then-member
\* order, whose name equals the argument up to surrounding whitespace and
\* letter case, null when there is none; arguments equal up to whitespace
\* and case get the same world.
C13_FirstWorldMatchOrNull ==
    result.op = "checkWorldStatus" =>
        /\ IF WorldMatches(subject.dataCenters, result.arg) = {}
           THEN result.value = NULL
           ELSE \E p \in WorldMatches(subject.dataCenters, result.arg) :
                    /\ \A q \in WorldMatches(subject.dataCenters, result.arg) :
                           q = p \/ Earlier(p, q)
                    /\ result.value = subject.dataCenters[p[1]].worlds[p[2]]
        /\ \A other \in WorldNames :
               SameName(other, result.arg) =>
                   FindWorld(subject.dataCenters, other) = result.value

\* "Omega" asked of <<Aether: Odin, " omega ">>, <<AETHER: Omega>>: the
\* padded member of the first group is returned, not the exact one later
C13_Witness ==
    /\ result.op = "checkWorldStatus"
    /\ subject.dataCenters = DataSameDataCenterTwice
    /\ result.arg = s_Omega
    /\ result.value = subject.dataCenters[1].worlds[2]

DataCenterMatches(dataCenters, dataCenterName) ==
    {i \in 1..Len(dataCenters) : SameName(dataCenters[i].name, dataCenterName)}

\* C14: getDataCenter returns the first data center, in the order of the
\* refreshed data, whose name equals the argument up to surrounding
\* whitespace and letter case, null when there is none.
C14_FirstDataCenterMatchOrNull ==
    result.op = "getDataCenter" =>
        IF DataCenterMatches(subject.dataCenters, result.arg) = {}
        THEN result.value = NULL
        ELSE \E i \in DataCenterMatches(subject.dataCenters, result.arg) :
                 /\ \A k \in DataCenterMatches(subject.dataCenters, result.arg) : i <= k
                 /\ result.value = subject.dataCenters[i]

\* "AETHER" asked of <<Aether: ...>>, <<AETHER: ...>>: the first data
\* center is returned, not the one of that exact name
C14_Witness ==
    /\ result.op = "getDataCenter"
    /\ subject.dataCenters = DataSameDataCenterTwice
    /\ result.arg = s_AETHER
    /\ result.value = subject.dataCenters[1]
    /\ result.value.name = s_Aether

RegionMatches(dataCenters, region) ==
    {i \in 1..Len(dataCenters) : dataCenters[i].region = region}

\* the k-th smallest element of a set of indices
Nth(indices, k) == CHOOSE i \in indices : Cardinality({h \in indices : h < i}) = k - 1

\* C15: getWorldsByRegion returns exactly the data centers whose region is
\* the argument, in their original order; the empty sequence when no data
\* center has that region.
C15_ExactlyTheRegionInOrder ==
    result.op = "getWorldsByRegion" =>
        /\ Len(result.value) = Cardinality(RegionMatches(subject.dataCenters, result.arg))
        /\ \A k \in 1..Len(result.value) :
               result.value[k] =
                   subject.dataCenters[Nth(RegionMatches(subject.dataCenters, result.arg), k)]
        /\ RegionMatches(subject.dataCenters, result.arg) = {} => result.value = <<>>

\* "eu" asked of <<Chaos, Aether, Light>> gives <<Chaos, Light>>
C15_Witness ==
    /\ result.op = "getWorldsByRegion"
    /\ subject.dataCenters = DataRegionsInterleaved
    /\ result.arg = "eu"
    /\ result.value = <<subject.dataCenters[1], subject.dataCenters[3]>>

\* the number of worlds in the first n data centers
RECURSIVE WorldCount(_, _)
WorldCount(dataCenters, n) ==
    IF n = 0 THEN 0 ELSE WorldCount(dataCenters, n - 1) + Len(dataCenters[n].worlds)

\* C16: getAllWorldsFlat returns the worlds of all data centers
\* concatenated in data center order, each data center's order kept: its
\* length is the sum of the member counts, member j of data center i is at
\* position (members before data center i) + j, and a data center with no
\* worlds contributes nothing.
C16_FlatIsConcatenationInOrder ==
    result.op = "getAllWorldsFlat" =>
        /\ Len(result.value) = WorldCount(subject.dataCenters, Len(subject.dataCenters))
        /\ \A p \in Members(subject.dataCenters) :
               result.value[WorldCount(subject.dataCenters, p[1] - 1) + p[2]]
                   = subject.dataCenters[p[1]].worlds[p[2]]

\* <<Mana: Odin>>, <<Aether: >>, <<Chaos: Omega>> flattens to two worlds,
\* the one of Chaos right after the one of Mana
C16_Witness ==
    /\ result.op = "getAllWorldsFlat"
    /\ subject.dataCenters = DataWithEmptyDataCenter
    /\ Len(result.value) = 2
    /\ result.value[1].name = s_Odin
    /\ result.value[2].name = s_Omega

\* ----------------------------------------------- properties of the parsers
Parsers == {"parseWorldStatus", "parseWorldStatusGeneric"}

\* a parser was applied and returned an array
ParseReturned == result.op \in Parsers /\ ~result.out.threw

\* C17: no two data centers in one parse result have the same name, for
\* either parser.
C17_NoTwoGroupsShareAName ==
    ParseReturned =>
        \A i, k \in 1..Len(result.out.value) :
            result.out.value[i].name = result.out.value[k].name => i = k

\* the headings of a document, in document order
Headings(doc) == querySelectorAll(doc, 0, IsHeading)

HeadingName(doc, n) == trim(Text(doc, Headings(doc)[n]))

\* the n-th heading is followed by a list with at least one matching item
Yields(doc, n) == Len(HeadingWorlds(doc, Headings(doc)[n])) > 0

\* the first heading of the text of the n-th heading
FirstOccurrence(doc, n) ==
    CHOOSE m \in 1..n :
        /\ HeadingName(doc, m) = HeadingName(doc, n)
        /\ \A l \in 1..(m - 1) : HeadingName(doc, l) # HeadingName(doc, n)

\* the headings that give a data center: those that yield worlds and
\* have no earlier heading of the same text that yields worlds
Kept(doc) ==
    {n \in 1..Len(Headings(doc)) :
        /\ Yields(doc, n)
        /\ \A m \in 1..(n - 1) : HeadingName(doc, m) = HeadingName(doc, n) => ~Yields(doc, m)}

GenericReturned == result.op = "parseWorldStatusGeneric" /\ ~result.out.threw

\* C18 as stated: in the generic parser the data center of a heading text
\* is always built from the first heading of that text; no later heading of
\* the text contributes, whether the first one yielded worlds or not.
C18_OnlyFirstOccurrenceContributes ==
    GenericReturned =>
        \A k \in 1..Len(result.out.value) :
            \E n \in 1..Len(Headings(subject.html.nodes)) :
                /\ HeadingName(subject.html.nodes, n) = result.out.value[k].name
                /\ FirstOccurrence(subject.html.nodes, n) = n
                /\ result.out.value[k].worlds =
                       ParsedWorlds(HeadingWorlds(subject.html.nodes,
                                                  Headings(subject.html.nodes)[n]))

\* C18 amended: in the generic parser a heading is skipped exactly when an
\* earlier heading of the same text has already given a data center; the
\* result is, in document order, the data centers of the headings that
\* yield worlds and are not preceded by a heading of the same text that
\* yields worlds.
C18_SkippedOnceADataCenterWasBuilt ==
    GenericReturned =>
        /\ Len(result.out.value) = Cardinality(Kept(subject.html.nodes))
        /\ \A k \in 1..Len(result.out.value) :
               result.out.value[k] =
                   DataCenter(HeadingName(subject.html.nodes, Nth(Kept(subject.html.nodes), k)),
                              ParsedWorlds(HeadingWorlds(subject.html.nodes,
                                  Headings(subject.html.nodes)[Nth(Kept(subject.html.nodes), k)])))

\* a heading repeated, each time followed by a list with a matching item:
\* one data center, with the world of the first list
C18_Witness ==
    /\ GenericReturned
    /\ subject.html = DocDuplicateHeadings
    /\ Len(result.out.value) = 1
    /\ result.out.value[1].name = s_Chaos
    /\ Len(result.out.value[1].worlds) = 1
    /\ result.out.value[1].worlds[1].name = s_Omega

\* C19: every data center in a parse result, of either parser, has at
\* least one world; a header with no list after it, or with a list that
\* yields no world, gives no data center.
C19_EveryGroupHasAMember ==
    ParseReturned =>
        \A k \in 1..Len(result.out.value) : Len(result.out.value[k].worlds) >= 1

\* three sections, Aether with no list, Chaos with a list whose only item
\* lacks its status, Light with a complete world: Light alone is returned
C19_Witness ==
    /\ result.op = "parseWorldStatus"
    /\ subject.html = DocHeaderWithoutMembers
    /\ ~result.out.threw
    /\ Len(result.out.value) = 1
    /\ result.out.value[1].name = s_Light
    /\ Len(result.out.value[1].worlds) = 1

\* ------------------------------------------------ types/index.ts validators
IsDigit(c) == c \in {"0", "1", "2", "3", "4", "5", "6", "7", "8", "9"}

\* /^[a-zA-Z0-9\s'-]+$/.test(trimmed), for trimmed of length > 0
IsAllowedText(trimmed) ==
    \A i \in 1..Len(trimmed) :
        IsLetter(trimmed[i]) \/ IsDigit(trimmed[i]) \/ IsSpace(trimmed[i])
            \/ trimmed[i] \in {"'", "-"}

\* part_002:56-59
isValidWorldName(name) == Len(trim(name)) > 0 /\ IsAllowedText(trim(name))

\* part_002:61-64
isValidDataCenterName(name) == Len(trim(name)) > 0 /\ IsAllowedText(trim(name))

\* C20: every world name and data center name in a parse result passes
\* the validators (not empty once trimmed; letters, digits, whitespace,
\* hyphens and apostrophes only): an entry whose name does not is left out
\* of the result.
C20_EveryNameInResultIsValid ==
    ParseReturned =>
        \A k \in 1..Len(result.out.value) :
            /\ isValidDataCenterName(result.out.value[k].name)
            /\ \A j \in 1..Len(result.out.value[k].worlds) :
                   isValidWorldName(result.out.value[k].worlds[j].name)

\* ------------------------------------- properties of status text and region
StatusTextParsed == result.op = "parseStatusText"

\* the status text, trimmed and in lower case, contains the word
Mentions(word) == includes(toLowerCase(trim(subject.statusText)), word)

MentionsPopulation ==
    \E word \in {w_preferredplus, w_preferred, w_congested, w_new} : Mentions(word)

\* C21: parseStatusText gives maintenance when the trimmed, lower-cased
\* text contains 'maintenance', otherwise offline when it contains
\* 'offline', otherwise online, whatever population word the text holds: a
\* text with 'maintenance' and a population word reports both.
C21_AvailabilityByPriority ==
    StatusTextParsed =>
        /\ result.out.status = "maintenance" <=> Mentions(w_maintenance)
        /\ result.out.status = "offline" <=> (Mentions(w_offline) /\ ~Mentions(w_maintenance))
        /\ result.out.status = "online" <=> (~Mentions(w_offline) /\ ~Mentions(w_maintenance))
        /\ MentionsPopulation <=> result.out.population # "standard"

\* "offline maintenance Preferred" is under maintenance and preferred
C21_Witness ==
    /\ StatusTextParsed
    /\ subject.statusText = w_offline \o sp \o w_maintenance \o sp \o W_Preferred
    /\ result.out.status = "maintenance"
    /\ result.out.population = "preferred"

\* C22: parseStatusText gives the population of the first word found in
\* the order 'preferred+', 'preferred', 'congested', 'new', and standard
\* when none is found; a text with none of the known words (empty, blank,
\* unrecognised) gives online, standard, creation open.
C22_PopulationByFirstMatch ==
    StatusTextParsed =>
        /\ result.out.population = "preferred+" <=> Mentions(w_preferredplus)
        /\ result.out.population = "preferred" <=>
               (Mentions(w_preferred) /\ ~Mentions(w_preferredplus))
        /\ result.out.population = "congested" <=>
               (Mentions(w_congested) /\ ~Mentions(w_preferred))
        /\ result.out.population = "new" <=>
               (Mentions(w_new) /\ ~Mentions(w_congested) /\ ~Mentions(w_preferred))
        /\ result.out.population = "standard" <=> ~MentionsPopulation
        /\ (~MentionsPopulation /\ ~Mentions(w_offline) /\ ~Mentions(w_maintenance)) =>
               result.out = [status |-> "online", population |-> "standard",
                             newCharacterCreation |-> TRUE]

\* " Congested Preferred" is preferred, the earlier word of the order
C22_Witness ==
    /\ StatusTextParsed
    /\ subject.statusText = sp \o W_Congested \o sp \o W_Preferred
    /\ result.out.population = "preferred"
    /\ result.out.newCharacterCreation

\* character creation is closed exactly when the population is congested
ClosedIffCongested(r) == (r.newCharacterCreation = FALSE) <=> (r.population = "congested")

AllClosedIffCongested(dataCenters) ==
    \A p \in Members(dataCenters) : ClosedIffCongested(dataCenters[p[1]].worlds[p[2]])

\* C23: newCharacterCreation is false if and only if population is
\* congested, in the result of parseStatusText for every status text, in
\* every world of every parse result, and in every array a refresh caches.
C23_CreationClosedIffCongested ==
    /\ StatusTextParsed => ClosedIffCongested(result.out)
    /\ ParseReturned => AllClosedIffCongested(result.out.value)
    /\ \A dataCenters \in ParsedArrays : AllClosedIffCongested(dataCenters)

\* " CONGESTED" is congested with character creation closed
C23_Witness ==
    /\ StatusTextParsed
    /\ subject.statusText = sp \o toUpperCase(w_congested)
    /\ result.out.population = "congested"
    /\ result.out.newCharacterCreation = FALSE

\* scraper.ts:189-204: the list of each region
ListOf(region) ==
    CASE region = "na" -> {n_aether, n_crystal, n_dynamis, n_primal}
      [] region = "eu" -> {n_chaos, n_light}
      [] region = "jp" -> {n_elemental, n_gaia, n_mana, n_meteor}
      [] region = "oc" -> {n_materia}

RegionInferred == result.op = "inferRegion"

\* C24: inferRegion always returns one of na, eu, jp, oc; a name equal,
\* ignoring case, to a member of one of the four lists gets that list's
\* region, the lists being disjoint; every other name gets na.
C24_RegionByListIgnoringCase ==
    /\ \A r1, r2 \in Regions : r1 # r2 => ListOf(r1) \cap ListOf(r2) = {}
    /\ RegionInferred =>
           /\ result.out \in Regions
           /\ \A r \in Regions :
                  toLowerCase(subject.dcName) \in ListOf(r) => result.out = r
           /\ (\A r \in Regions : toLowerCase(subject.dcName) \notin ListOf(r)) =>
                  result.out = "na"

\* "MATERIA" is in Oceania
C24_Witness ==
    /\ RegionInferred
    /\ subject.dcName = toUpperCase(n_materia)
    /\ result.out = "oc"

\* --------------------------------------- properties of the primary strategy
PrimaryApplied == result.op = "parseWorldStatus" /\ ~subject.html.parseThrows

\* the data center containers of a document, in document order
Sections(doc) == querySelectorAll(doc, 0, IsDatacenterSection)

SectionItems(doc, uls) == IF uls = <<>> THEN <<>> ELSE querySelectorAll(doc, uls[1], IsLI)

\* the item has a name and a status, neither empty once trimmed
CompleteItem(doc, item) ==
    /\ FirstText(doc, querySelectorAll(doc, item, IsWorldName)) # <<>>
    /\ FirstText(doc, querySelectorAll(doc, item, IsStatus)) # <<>>

\* the complete items of a section, in document order
CompleteItems(doc, section) ==
    LET complete(item) == CompleteItem(doc, item)
    IN SelectSeq(SectionItems(doc, querySelectorAll(doc, section, IsUL)), complete)

\* the sections with a header and at least one complete item, in document
\* order
CompleteSections(doc) ==
    LET complete(section) ==
            /\ querySelectorAll(doc, section, IsH3) # <<>>
            /\ CompleteItems(doc, section) # <<>>
    IN SelectSeq(Sections(doc), complete)

\* the data center is the one of the section: its header's name, and the
\* section's complete items in order, each with its name and parsed status
BuiltFrom(doc, dataCenter, section) ==
    /\ dataCenter.name = trim(Text(doc, querySelectorAll(doc, section, IsH3)[1]))
    /\ Len(dataCenter.worlds) = Len(CompleteItems(doc, section))
    /\ \A j \in 1..Len(dataCenter.worlds) :
           dataCenter.worlds[j] =
               World(FirstText(doc, querySelectorAll(doc, CompleteItems(doc, section)[j],
                                                     IsWorldName)),
                     parseStatusText(FirstText(doc,
                         querySelectorAll(doc, CompleteItems(doc, section)[j], IsStatus))))

\* C33: parseWorldStatus skips an incomplete entry on its own: a container
\* without a header, and a list item without its name or without its
\* status, are left out, and the result is exactly the containers that
\* have a header and a complete item, in document order, each with all its
\* complete items in document order, those before and after a skipped
\* entry included.
C33_IncompleteEntriesSkippedAlone ==
    (PrimaryApplied /\ ~result.out.threw) =>
        /\ Len(result.out.value) = Len(CompleteSections(subject.html.nodes))
        /\ \A k \in 1..Len(result.out.value) :
               BuiltFrom(subject.html.nodes, result.out.value[k],
                         CompleteSections(subject.html.nodes)[k])

\* Aether with two incomplete items between Omega and Odin, a container
\* without header, then Chaos: Aether (Omega, Odin) and Chaos (Zurvan)
C33_Witness ==
    /\ PrimaryApplied
    /\ subject.html = DocIncompleteBetween
    /\ Len(result.out.value) = 2
    /\ result.out.value[1].name = s_Aether
    /\ Len(result.out.value[1].worlds) = 2
    /\ result.out.value[1].worlds[1].name = s_Omega
    /\ result.out.value[1].worlds[2].name = s_Odin
    /\ result.out.value[2].name = s_Chaos
    /\ result.out.value[2].worlds[1].name = s_Zurvan

\* -------------------------------------- properties of the fallback strategy
\* the lists among the following siblings of element h
FollowingLists(doc, h) ==
    {j \in 1..Len(doc) : j > h /\ doc[j].parent = doc[h].parent /\ doc[j].tag = "UL"}

\* the first list among the following siblings of element h, 0 when none
PairedList(doc, h) ==
    IF FollowingLists(doc, h) = {} THEN 0
    ELSE CHOOSE j \in FollowingLists(doc, h) : \A i \in FollowingLists(doc, h) : j <= i

\* the rows that match the pattern in the list paired with the n-th heading
PairedRows(doc, n) ==
    IF PairedList(doc, Headings(doc)[n]) = 0 THEN <<>>
    ELSE ItemsRawWorlds(doc, querySelectorAll(doc, PairedList(doc, Headings(doc)[n]), IsLI))

\* the headings that give a data center: a list is paired with them, it has
\* a matching row, and no earlier heading of the same text gave one
Grouped(doc) ==
    {n \in 1..Len(Headings(doc)) :
        /\ PairedRows(doc, n) # <<>>
        /\ \A m \in 1..(n - 1) :
               HeadingName(doc, m) = HeadingName(doc, n) => PairedRows(doc, m) = <<>>}

\* C34: parseWorldStatusGeneric pairs each heading with the first list
\* among its following siblings, whatever lies between them, other
\* headings included, and looks at the rows of that list only; a heading
\* with no list among its following siblings gives no data center.
C34_HeadingPairedWithFirstFollowingList ==
    GenericReturned =>
        /\ Len(result.out.value) = Cardinality(Grouped(subject.html.nodes))
        /\ \A k \in 1..Len(result.out.value) :
               result.out.value[k] =
                   DataCenter(HeadingName(subject.html.nodes, Nth(Grouped(subject.html.nodes), k)),
                              ParsedWorlds(PairedRows(subject.html.nodes,
                                                      Nth(Grouped(subject.html.nodes), k))))
        /\ \A n \in 1..Len(Headings(subject.html.nodes)) :
               (/\ PairedList(subject.html.nodes, Headings(subject.html.nodes)[n]) = 0
                /\ \A m \in 1..Len(Headings(subject.html.nodes)) :
                       m # n => HeadingName(subject.html.nodes, m)
                                    # HeadingName(subject.html.nodes, n)) =>
                   \A k \in 1..Len(result.out.value) :
                       result.out.value[k].name # HeadingName(subject.html.nodes, n)

\* Chaos and Light both get the list after the paragraph; Mana, whose
\* first list has no matching row, and Aether, with no list among its
\* siblings, give nothing
C34_Witness ==
    /\ GenericReturned
    /\ subject.html = DocSiblingPairing
    /\ Len(result.out.value) = 2
    /\ result.out.value[1].name = s_Chaos
    /\ result.out.value[2].name = s_Light
    /\ result.out.value[1].worlds = result.out.value[2].worlds
    /\ result.out.value[1].worlds[1].name = s_Omega

\* the text ends with the population word, in whatever case
TokenAtEnd(text, w) == endsWith(toLowerCase(text), toLowerCase(w))

\* the text is a run of letters and spaces, then whitespace, then the
\* population word w in whatever case
IsRowWith(text, before, w) ==
    /\ TokenAtEnd(text, w)
    /\ before # <<>>
    /\ IsSpace(before[Len(before)])
    /\ trimEnd(before) # <<>>
    /\ \A i \in 1..Len(before) : IsLetter(before[i]) \/ IsSpace(before[i])

IsWorldRow(text) ==
    \E w \in PopulationWords :
        Len(text) >= Len(w) /\ IsRowWith(text, SubSeq(text, 1, Len(text) - Len(w)), w)

\* the items of the list paired with the n-th heading whose trimmed text
\* is a world row
WorldRows(doc, n) ==
    LET row(item) == IsWorldRow(trim(Text(doc, item)))
    IN IF PairedList(doc, Headings(doc)[n]) = 0 THEN <<>>
       ELSE SelectSeq(querySelectorAll(doc, PairedList(doc, Headings(doc)[n]), IsLI), row)

\* C35 as stated: in parseWorldStatusGeneric a list item becomes a world
\* exactly when its trimmed text is a run of letters and spaces, then
\* whitespace, then one of Standard, Preferred, Congested, Preferred+, New
\* in whatever case: a heading whose text no other heading has gives a data
\* center with one world for each such item of its list, in order, and
\* none when the list has no such item.
C35_MemberIffRowIgnoringCase ==
    GenericReturned =>
        \A n \in 1..Len(Headings(subject.html.nodes)) :
            (\A m \in 1..Len(Headings(subject.html.nodes)) :
                 m # n => HeadingName(subject.html.nodes, m) # HeadingName(subject.html.nodes, n))
            => IF WorldRows(subject.html.nodes, n) = <<>>
               THEN \A k \in 1..Len(result.out.value) :
                        result.out.value[k].name # HeadingName(subject.html.nodes, n)
               ELSE \E k \in 1..Len(result.out.value) :
                        /\ result.out.value[k].name = HeadingName(subject.html.nodes, n)
                        /\ Len(result.out.value[k].worlds) = Len(WorldRows(subject.html.nodes, n))
====
